---- MODULE Spec2Model ----
(***************************************************************************)
(* Liquidity event pipeline of reth-exex-liquidity: the Pool Tracker       *)
(* (src/pool_tracker.rs), the Chain Processor (liquidity_exex in           *)
(* src/main.rs) and the Whitelist Ingestor task that feeds the tracker.    *)
(*                                                                         *)
(* Addresses (20 bytes in the program) are byte strings of length 2 here,  *)
(* pool keys (32 bytes) byte strings of length 3.  In the frames of the    *)
(* Chain Processor an update carries its variant only; the numeric         *)
(* payloads are computed in DeltaSpec, on integers of BITS bits.  The      *)
(* statistics counters events_processed and blocks_processed are           *)
(* write-only (logging) and are not modelled.                              *)
(***************************************************************************)
EXTENDS Integers, Sequences, FiniteSets, TLC

VARIABLES
    pool_tracker,           \* PoolTracker behind Arc<RwLock<..>>
    stream_seq,             \* liquidity_exex local: monotonic stream sequence
    emitted,                \* frames handed to socket_tx.try_send, in order
    pc,                     \* position of the Chain Processor task
    notification,           \* the notification being processed
    phase,                  \* "old" (revert loop) or "new" (apply loop)
    idx,                    \* index of the current block in the current loop
    slot0_resync_required,  \* Vec<PoolIdentifier> local of a reorg/revert
    final_tip_block,        \* local of a reorg/revert
    acks,                   \* FinishedHeight events sent to the host
    msgs_received,          \* whitelist messages consumed by the Ingestor
    socket_tx,              \* the bounded mpsc channel Processor -> server
    broadcast_tx,           \* the broadcast channel server -> client handlers
    clients,                \* per connection: handler task, stream, subscriber
    ingestor,               \* the whitelist task: position, last message, backoff
    pool_delta,             \* a decoded event and the numeric payload made of it
    balance_monitor,        \* balance monitor: balances, receipts in hand, changed tokens
    notifications,          \* ctx.notifications: the host's stream and how far it was read
    tracker_lock            \* the RwLock around the tracker: guards held, requests queued

vars == <<pool_tracker, stream_seq, emitted, pc, notification, phase, idx, slot0_resync_required, final_tip_block, acks, msgs_received, socket_tx, broadcast_tx, clients, ingestor, pool_delta, balance_monitor, notifications, tracker_lock>>

----------------------------------------------------------------------------
(* Bounds of the model *)

MaxSeq == 5             \* a notification is accepted while stream_seq < MaxSeq
MaxChainLen == 2        \* blocks per chain of a notification
MaxMessages == 1        \* whitelist messages delivered by the bus
MaxUpdates == 3         \* updates handed to the tracker on its own
MaxChurn == 2           \* whitelist messages of a churning whitelist
MaxFrames == 4          \* frames handed to the socket server on its own
CHANNEL_CAPACITY == 2   \* slots of the producer channel (scaled down)
BUFFER_SIZE == 2        \* slots of the broadcast ring (scaled down)
StreamBuffer == 1       \* frames a client's stream holds unread

----------------------------------------------------------------------------
(* Identifiers *)

A1 == <<17, 34>>                    \* a pool contract address
A2 == <<0, 171>>                    \* a contract address never whitelisted
UNISWAP_V4_POOL_MANAGER == <<0, 4>> \* the PoolManager singleton address
K1 == <<0, 0, 1>>                   \* V4 pool keys
K2 == <<0, 0, 2>>
FirstBlock == 100                   \* number of the first block of a chain

Address(a) == [tag |-> "Address", bytes |-> a]
PoolId(k) == [tag |-> "PoolId", bytes |-> k]

PoolMetadata(id, protocol) == [pool_id |-> id, protocol |-> protocol]

Add(pools) == [op |-> "Add", pools |-> pools]
Remove(ids) == [op |-> "Remove", pools |-> ids]
Replace(pools) == [op |-> "Replace", pools |-> pools]

----------------------------------------------------------------------------
(* Pool Tracker *)

PoolTrackerNew ==
    [pools_by_address |-> {}, pools_by_id |-> {},
     tracked_addresses |-> {}, tracked_pool_ids |-> {},
     pending_updates |-> <<>>, in_block |-> FALSE,
     v2_count |-> 0, v3_count |-> 0, v4_count |-> 0]

\* HashMap as a set of [k, v] entries with unique keys
MapKeys(m) == {e.k : e \in m}
MapInsert(m, k, v) == {e \in m : e.k # k} \cup {[k |-> k, v |-> v]}
MapRemove(m, k) == {e \in m : e.k # k}
MapGet(m, k) == (CHOOSE e \in m : e.k = k).v

\* variant: the manager contract is let through whether tracked or not
is_tracked_address_or_manager(t, address) == address \in t.tracked_addresses \/ address = UNISWAP_V4_POOL_MANAGER

is_tracked_address(t, address) == address \in t.tracked_addresses

is_tracked_pool_id(t, pool_id) == pool_id \in t.tracked_pool_ids

has_pending_updates(t) == t.pending_updates # <<>>

IncCount(t, protocol) ==
    CASE protocol = "UniswapV2" -> [t EXCEPT !.v2_count = @ + 1]
      [] protocol = "UniswapV3" -> [t EXCEPT !.v3_count = @ + 1]
      [] protocol = "UniswapV4" -> [t EXCEPT !.v4_count = @ + 1]

DecCount(t, protocol) ==
    CASE protocol = "UniswapV2" -> [t EXCEPT !.v2_count = @ - 1]
      [] protocol = "UniswapV3" -> [t EXCEPT !.v3_count = @ - 1]
      [] protocol = "UniswapV4" -> [t EXCEPT !.v4_count = @ - 1]

\* variant: no duplicate test, a pool that is tracked is stored again
AddPoolAgain(t, pool) ==
    LET id == pool.pool_id
    IN  IF id.tag = "Address"
        THEN IncCount([t EXCEPT
                 !.tracked_addresses = @ \cup {id.bytes},
                 !.pools_by_address = MapInsert(@, id.bytes, pool)],
               pool.protocol)
        ELSE IncCount([t EXCEPT
                 !.tracked_pool_ids = @ \cup {id.bytes},
                 !.pools_by_id = MapInsert(@, id.bytes, pool),
                 !.tracked_addresses = @ \cup {UNISWAP_V4_POOL_MANAGER}],
               pool.protocol)

\* body of the `for pool in pools` loop of add_pools
AddPool(t, pool) ==
    LET id == pool.pool_id
        already_tracked ==
            IF id.tag = "Address"
            THEN id.bytes \in t.tracked_addresses
            ELSE id.bytes \in t.tracked_pool_ids
    IN  IF already_tracked THEN t
        ELSE IF id.tag = "Address"
        THEN IncCount([t EXCEPT
                 !.tracked_addresses = @ \cup {id.bytes},
                 !.pools_by_address = MapInsert(@, id.bytes, pool)],
               pool.protocol)
        ELSE IncCount([t EXCEPT
                 !.tracked_pool_ids = @ \cup {id.bytes},
                 !.pools_by_id = MapInsert(@, id.bytes, pool),
                 !.tracked_addresses = @ \cup {UNISWAP_V4_POOL_MANAGER}],
               pool.protocol)

RECURSIVE add_pools(_, _)
add_pools(t, pools) ==
    IF pools = <<>> THEN t
    ELSE add_pools(AddPool(t, Head(pools)), Tail(pools))

\* body of the `for pool_id in pool_ids` loop of remove_pools
RemovePool(t, id) ==
    IF id.tag = "Address"
    THEN IF id.bytes \in MapKeys(t.pools_by_address)
         THEN DecCount([t EXCEPT
                  !.pools_by_address = MapRemove(@, id.bytes),
                  !.tracked_addresses = @ \ {id.bytes}],
                MapGet(t.pools_by_address, id.bytes).protocol)
         ELSE t
    ELSE IF id.bytes \in MapKeys(t.pools_by_id)
         THEN DecCount([t EXCEPT
                  !.pools_by_id = MapRemove(@, id.bytes),
                  !.tracked_pool_ids = @ \ {id.bytes}],
                MapGet(t.pools_by_id, id.bytes).protocol)
         ELSE t

RECURSIVE remove_pools(_, _)
remove_pools(t, pool_ids) ==
    IF pool_ids = <<>> THEN t
    ELSE remove_pools(RemovePool(t, Head(pool_ids)), Tail(pool_ids))

\* variant: the maps and sets are cleared, the counters are not reset
replace_all_keep_counts(t, pools) ==
    add_pools([t EXCEPT !.pools_by_address = {}, !.pools_by_id = {},
                        !.tracked_addresses = {}, !.tracked_pool_ids = {}],
              pools)

replace_all(t, pools) ==
    add_pools([t EXCEPT !.pools_by_address = {}, !.pools_by_id = {},
                        !.tracked_addresses = {}, !.tracked_pool_ids = {},
                        !.v2_count = 0, !.v3_count = 0, !.v4_count = 0],
              pools)

ApplyUpdate(t, update) ==
    CASE update.op = "Add" -> add_pools(t, update.pools)
      [] update.op = "Remove" -> remove_pools(t, update.pools)
      [] update.op = "Replace" -> replace_all(t, update.pools)

RECURSIVE apply_pending_updates(_)
apply_pending_updates(t) ==
    IF t.pending_updates = <<>> THEN t
    ELSE apply_pending_updates(
             ApplyUpdate([t EXCEPT !.pending_updates = Tail(@)],
                         Head(t.pending_updates)))

stats(t) ==
    [total_pools |-> Cardinality(t.pools_by_address) + Cardinality(t.pools_by_id),
     v2_pools |-> t.v2_count, v3_pools |-> t.v3_count, v4_pools |-> t.v4_count]

begin_block(t) == [t EXCEPT !.in_block = TRUE]

\* variant: the flag is cleared but the queue is not drained
end_block_no_drain(t) == [t EXCEPT !.in_block = FALSE]

end_block(t) == apply_pending_updates([t EXCEPT !.in_block = FALSE])

\* variant: the newest update goes to the front of the queue
queue_update_lifo(t, update) ==
    LET q == [t EXCEPT !.pending_updates = <<update>> \o @]
    IN  IF ~q.in_block THEN apply_pending_updates(q) ELSE q

\* variant: the update is applied at once, whether a block is open or not
queue_update_immediate(t, update) ==
    apply_pending_updates([t EXCEPT !.pending_updates = Append(@, update)])

queue_update(t, update) ==
    LET q == [t EXCEPT !.pending_updates = Append(@, update)]
    IN  IF ~q.in_block THEN apply_pending_updates(q) ELSE q

----------------------------------------------------------------------------
(* Host data: logs, receipts, blocks *)

Log(address, sig, topic1, delta) ==
    [address |-> address, sig |-> sig, topic1 |-> topic1,
     liquidity_delta |-> delta]

\* one receipt, one V3 swap of A1
BodySmall ==
    << << Log(A1, "V3Swap", K1, 0) >> >>

\* swaps of A1 (twice), of an unlisted contract, and of both V4 keys
BodySwaps ==
    << << Log(A1, "V3Swap", K1, 0),
          Log(A2, "V3Swap", K1, 0),
          Log(UNISWAP_V4_POOL_MANAGER, "V4Swap", K2, 0) >>,
       << Log(A1, "V3Swap", K1, 0),
          Log(UNISWAP_V4_POOL_MANAGER, "V4Swap", K1, 0) >> >>

\* unknown signature, liquidity events, a V3 swap emitted by the manager
\* address, an empty receipt, a V4 signature emitted by a pool contract
BodyMixed ==
    << << Log(A1, "Unknown", K1, 0),
          Log(A1, "V3Mint", K1, 0),
          Log(UNISWAP_V4_POOL_MANAGER, "V3Swap", K1, 0) >>,
       << >>,
       << Log(A1, "V4Swap", K1, 0),
          Log(UNISWAP_V4_POOL_MANAGER, "V4ModifyLiquidity", K1, -5),
          Log(A1, "V2Swap", K1, 0) >> >>

Bodies == <<BodySmall, BodySwaps, BodyMixed>>

Timestamp(block_number) == 1000 + block_number

\* a chain of len consecutive blocks; the receipts of its blocks run through
\* Bodies starting at seed; a seed of Len(Bodies) or more gives the blocks
\* of the other side of a fork: same numbers, other hashes
Chain(first, len, seed) ==
    [i \in 1..len |->
        [number |-> first + i - 1,
         hash |-> <<first + i - 1, seed \div Len(Bodies)>>,
         timestamp |-> Timestamp(first + i - 1),
         receipts |-> Bodies[((seed + i - 1) % Len(Bodies)) + 1]]]

RECURSIVE BlockNumbers(_)
BlockNumbers(chain) ==
    IF chain = <<>> THEN <<>>
    ELSE <<Head(chain).number>> \o BlockNumbers(Tail(chain))

AddressEventKinds ==
    {"V2Swap", "V2Mint", "V2Burn", "V3Swap", "V3Mint", "V3Burn"}
PoolIdEventKinds == {"V4Swap", "V4ModifyLiquidity"}

----------------------------------------------------------------------------
(* Event Decoder and the per-log pipeline of the Chain Processor *)

decode_log(log) ==
    IF log.sig \in AddressEventKinds
    THEN [kind |-> log.sig, pool |-> log.address,
          pool_id |-> <<>>, liquidity_delta |-> 0]
    ELSE IF log.sig \in PoolIdEventKinds
    THEN [kind |-> log.sig, pool |-> <<>>,
          pool_id |-> log.topic1, liquidity_delta |-> log.liquidity_delta]
    ELSE [kind |-> "None", pool |-> <<>>, pool_id |-> <<>>,
          liquidity_delta |-> 0]

\* variant: a V4 event is checked by the PoolManager address
should_process_event_by_emitter(event, t) ==
    IF event.kind \in AddressEventKinds
    THEN is_tracked_address(t, event.pool)
    ELSE is_tracked_address(t, UNISWAP_V4_POOL_MANAGER)

should_process_event(event, t) ==
    IF event.kind \in AddressEventKinds
    THEN is_tracked_address(t, event.pool)
    ELSE is_tracked_pool_id(t, event.pool_id)

EventProtocol(kind) ==
    CASE kind \in {"V2Swap", "V2Mint", "V2Burn"} -> "UniswapV2"
      [] kind \in {"V3Swap", "V3Mint", "V3Burn"} -> "UniswapV3"
      [] kind \in PoolIdEventKinds -> "UniswapV4"

EventUpdateType(event) ==
    CASE event.kind \in {"V2Swap", "V3Swap", "V4Swap"} -> "Swap"
      [] event.kind \in {"V2Mint", "V3Mint"} -> "Mint"
      [] event.kind \in {"V2Burn", "V3Burn"} -> "Burn"
      [] event.kind = "V4ModifyLiquidity" ->
            IF event.liquidity_delta > 0 THEN "Mint" ELSE "Burn"

EventUpdate(kind) ==
    CASE kind \in {"V2Swap", "V3Swap", "V4Swap"} -> kind
      [] kind \in {"V2Mint", "V2Burn"} -> "V2Liquidity"
      [] kind \in {"V3Mint", "V3Burn"} -> "V3Liquidity"
      [] kind = "V4ModifyLiquidity" -> "V4Liquidity"

\* variant: tx_index and log_index are exchanged
create_pool_update_swapped(event, block_number, block_timestamp, tx_index, log_index, is_revert) ==
    [pool_id |-> IF event.kind \in AddressEventKinds
                 THEN Address(event.pool) ELSE PoolId(event.pool_id),
     protocol |-> EventProtocol(event.kind),
     update_type |-> EventUpdateType(event),
     block_number |-> block_number,
     block_timestamp |-> block_timestamp,
     tx_index |-> log_index,
     log_index |-> tx_index,
     is_revert |-> is_revert,
     update |-> EventUpdate(event.kind)]

create_pool_update(event, block_number, block_timestamp, tx_index, log_index, is_revert) ==
    [pool_id |-> IF event.kind \in AddressEventKinds
                 THEN Address(event.pool) ELSE PoolId(event.pool_id),
     protocol |-> EventProtocol(event.kind),
     update_type |-> EventUpdateType(event),
     block_number |-> block_number,
     block_timestamp |-> block_timestamp,
     tx_index |-> tx_index,
     log_index |-> log_index,
     is_revert |-> is_revert,
     update |-> EventUpdate(event.kind)]

\* variant: the counter is kept in three bits
next_stream_seq_narrow(counter) == (counter + 1) % 8

next_stream_seq(counter) == counter + 1

pool_identifier_eq(lhs, rhs) == lhs.tag = rhs.tag /\ lhs.bytes = rhs.bytes

\* variant: no check for an identifier that is already listed
maybe_record_slot0_resync_pool_no_dedup(update, list) ==
    IF ~update.is_revert THEN list
    ELSE IF update.update \notin {"V3Swap", "V4Swap"} THEN list
    ELSE Append(list, update.pool_id)

\* variant: every reverted update is recorded, liquidity events included
maybe_record_slot0_resync_pool_any_update(update, list) ==
    IF ~update.is_revert THEN list
    ELSE IF \E i \in 1..Len(list) : pool_identifier_eq(list[i], update.pool_id)
    THEN list
    ELSE Append(list, update.pool_id)

maybe_record_slot0_resync_pool(update, list) ==
    IF ~update.is_revert THEN list
    ELSE IF update.update \notin {"V3Swap", "V4Swap"} THEN list
    ELSE IF \E i \in 1..Len(list) : pool_identifier_eq(list[i], update.pool_id)
    THEN list
    ELSE Append(list, update.pool_id)

\* hex::encode: two lowercase hex digits per byte, as character codes
HexDigit(n) == IF n < 10 THEN 48 + n ELSE 87 + n

RECURSIVE HexEncode(_)
HexEncode(bytes) ==
    IF bytes = <<>> THEN <<>>
    ELSE <<HexDigit(Head(bytes) \div 16), HexDigit(Head(bytes) % 16)>>
         \o HexEncode(Tail(bytes))

\* "a:<hex>" for an address, "p:<hex>" for a pool key
pool_identifier_sort_key(pool_id) ==
    IF pool_id.tag = "Address"
    THEN <<97, 58>> \o HexEncode(pool_id.bytes)
    ELSE <<112, 58>> \o HexEncode(pool_id.bytes)

\* Ord of String: lexicographic on the code units
RECURSIVE StrLessEq(_, _)
StrLessEq(a, b) ==
    IF a = <<>> THEN TRUE
    ELSE IF b = <<>> THEN FALSE
    ELSE IF Head(a) < Head(b) THEN TRUE
    ELSE IF Head(a) > Head(b) THEN FALSE
    ELSE StrLessEq(Tail(a), Tail(b))

\* stable insertion of x behind every element whose key is <= key(x)
RECURSIVE InsertByKey(_, _)
InsertByKey(x, sorted) ==
    IF sorted = <<>> THEN <<x>>
    ELSE IF StrLessEq(pool_identifier_sort_key(Head(sorted)),
                      pool_identifier_sort_key(x))
    THEN <<Head(sorted)>> \o InsertByKey(x, Tail(sorted))
    ELSE <<x>> \o sorted

RECURSIVE sort_pool_identifiers_deterministically(_)
sort_pool_identifiers_deterministically(pool_ids) ==
    IF pool_ids = <<>> THEN <<>>
    ELSE InsertByKey(pool_ids[Len(pool_ids)],
             sort_pool_identifiers_deterministically(
                 SubSeq(pool_ids, 1, Len(pool_ids) - 1)))

OptNone == <<>>
OptSome(n) == <<n>>

Min(a, b) == IF a < b THEN a ELSE b
Max(a, b) == IF a > b THEN a ELSE b

RECURSIVE RangeFold(_, _)
RangeFold(r, block_numbers) ==
    IF block_numbers = <<>> THEN r
    ELSE LET n == Head(block_numbers)
         IN  RangeFold(
               [first_block |-> IF r.first_block = OptNone THEN OptSome(n)
                                ELSE OptSome(Min(r.first_block[1], n)),
                last_block |-> IF r.last_block = OptNone THEN OptSome(n)
                               ELSE OptSome(Max(r.last_block[1], n)),
                block_count |-> r.block_count + 1],
               Tail(block_numbers))

\* variant: the block count starts at one
RangeCountFromOne ==
    [first_block |-> OptNone, last_block |-> OptNone, block_count |-> 1]

EmptyRange ==
    [first_block |-> OptNone, last_block |-> OptNone, block_count |-> 0]

\* variant: the summary of the first block alone
block_range_summary_of_first(block_numbers) ==
    RangeFold(EmptyRange, SubSeq(block_numbers, 1, 1))
block_range_summary_from_numbers(block_numbers) ==
    RangeFold(EmptyRange, block_numbers)

----------------------------------------------------------------------------
(* Frames and the send_* helpers.  A sender is the pair of the stream        *)
(* sequence counter and the frames handed to try_send so far.                *)

Sender(seq, out) == [seq |-> seq, out |-> out]

send_begin_block(s, block_number, block_timestamp, is_revert) ==
    LET seq == next_stream_seq(s.seq)
    IN  Sender(seq, Append(s.out,
            [type |-> "BeginBlock", stream_seq |-> seq,
             block_number |-> block_number,
             block_timestamp |-> block_timestamp,
             is_revert |-> is_revert]))

send_pool_update(s, update_msg) ==
    LET seq == next_stream_seq(s.seq)
    IN  Sender(seq, Append(s.out,
            [type |-> "PoolUpdate", stream_seq |-> seq,
             event |-> update_msg]))

\* variant: the count sent is one too high
send_end_block_off_by_one(s, block_number, num_updates) ==
    LET seq == next_stream_seq(s.seq)
    IN  Sender(seq, Append(s.out,
            [type |-> "EndBlock", stream_seq |-> seq,
             block_number |-> block_number,
             num_updates |-> num_updates + 1]))

send_end_block(s, block_number, num_updates) ==
    LET seq == next_stream_seq(s.seq)
    IN  Sender(seq, Append(s.out,
            [type |-> "EndBlock", stream_seq |-> seq,
             block_number |-> block_number,
             num_updates |-> num_updates]))

send_reorg_start(s, old_range, new_range) ==
    LET seq == next_stream_seq(s.seq)
    IN  Sender(seq, Append(s.out,
            [type |-> "ReorgStart", stream_seq |-> seq,
             old_range |-> old_range, new_range |-> new_range]))

\* variant: the sequence number is taken but no frame is sent
send_reorg_complete_missing(s, tip, resync) ==
    Sender(next_stream_seq(s.seq), s.out)

send_reorg_complete(s, tip, resync) ==
    LET seq == next_stream_seq(s.seq)
    IN  Sender(seq, Append(s.out,
            [type |-> "ReorgComplete", stream_seq |-> seq,
             final_tip_block |-> tip,
             slot0_resync_required |-> resync]))

----------------------------------------------------------------------------
(* Scan of one block: receipts in transaction order, logs in log order *)

\* state of a scan: the sender, the update count, the resync list
ScanState(s, count, resync) == [s |-> s, count |-> count, resync |-> resync]

\* body of the inner `for (log_index, log)` loop
ScanLog(st, t, log, block, tx_index, log_index, is_revert) ==
    IF ~is_tracked_address(t, log.address) THEN st
    ELSE LET decoded_event == decode_log(log)
         IN  IF decoded_event.kind = "None" THEN st
             ELSE IF ~should_process_event(decoded_event, t) THEN st
             ELSE LET update_msg ==
                          create_pool_update(decoded_event, block.number,
                              block.timestamp, tx_index, log_index,
                              is_revert)
                  IN  ScanState(
                          send_pool_update(st.s, update_msg),
                          st.count + 1,
                          IF is_revert
                          THEN maybe_record_slot0_resync_pool(update_msg,
                                                              st.resync)
                          ELSE st.resync)

RECURSIVE ScanReceipt(_, _, _, _, _, _, _)
ScanReceipt(st, t, logs, block, tx_index, log_index, is_revert) ==
    IF log_index >= Len(logs) THEN st
    ELSE ScanReceipt(
             ScanLog(st, t, logs[log_index + 1], block, tx_index,
                     log_index, is_revert),
             t, logs, block, tx_index, log_index + 1, is_revert)

RECURSIVE ScanReceipts(_, _, _, _, _)
ScanReceipts(st, t, block, tx_index, is_revert) ==
    IF tx_index >= Len(block.receipts) THEN st
    ELSE ScanReceipts(
             ScanReceipt(st, t, block.receipts[tx_index + 1], block,
                         tx_index, 0, is_revert),
             t, block, tx_index + 1, is_revert)

----------------------------------------------------------------------------
(* The socket server's channels *)

\* mpsc::channel(CHANNEL_CAPACITY): the frames queued, the number of frames
\* the server has taken, the stream_seq of every frame whose try_send
\* returned Err (one warn! line each), and whether the receiver is gone
ChannelNew == [queue |-> <<>>, taken |-> 0, failed |-> <<>>, closed |-> FALSE]

\* variant: a full channel evicts its oldest frame to take the new one
try_send_evict(chan, msg) ==
    IF chan.closed
    THEN [chan EXCEPT !.failed = Append(@, msg.stream_seq)]
    ELSE IF Len(chan.queue) >= CHANNEL_CAPACITY
    THEN [chan EXCEPT !.queue = Append(Tail(@), msg)]
    ELSE [chan EXCEPT !.queue = Append(@, msg)]

\* `if let Err(e) = self.socket_tx.try_send(msg) { warn!(..) }`
try_send(chan, msg) ==
    IF chan.closed \/ Len(chan.queue) >= CHANNEL_CAPACITY
    THEN [chan EXCEPT !.failed = Append(@, msg.stream_seq)]
    ELSE [chan EXCEPT !.queue = Append(@, msg)]

RECURSIVE try_send_all(_, _)
try_send_all(chan, msgs) ==
    IF msgs = <<>> THEN chan
    ELSE try_send_all(try_send(chan, Head(msgs)), Tail(msgs))

\* every frame a step of the Processor builds goes through try_send, in order
TrySendEmitted ==
    socket_tx' = try_send_all(socket_tx, SubSeq(emitted', Len(emitted) + 1, Len(emitted')))

\* broadcast::channel(BUFFER_SIZE): every message stored so far; the ring
\* retains the last BUFFER_SIZE of them
BroadcastNew == [sent |-> <<>>]

Clients == {"A", "B"}

\* a connection: the handler task's position, the receiver's cursor, the
\* message in hand, the frames written to the stream, how many of them sit
\* unread in the stream, whether the subscriber still reads, whether it has
\* closed its end of the stream, and the number of messages broadcast when
\* it subscribed and when it stopped reading
ClientNew == [task |-> "none", next |-> 0, message |-> <<>>, wire |-> <<>>, unread |-> 0, reading |-> TRUE, closed |-> FALSE, subscribed_at |-> 0, stopped_at |-> 0]

\* receivers alive on the broadcast channel
rx_cnt == Cardinality({c \in Clients : clients[c].task \in {"recv", "write"}})

\* broadcast_tx.send(message): Err (ignored) when no receiver is alive
broadcast_send(b, message) ==
    IF rx_cnt = 0 THEN b ELSE [b EXCEPT !.sent = Append(@, message)]

\* index of the oldest message the ring still holds, minus one
RingStart(b) == Max(Len(b.sent) - BUFFER_SIZE, 0)

\* variant: a new receiver starts at the oldest message the ring retains
subscribe_oldest(b) == RingStart(b)

\* broadcast_tx.subscribe(): the new receiver's cursor is the tail of the
\* ring, it sees the messages sent after the call only
subscribe(b) == Len(b.sent)

----------------------------------------------------------------------------
(* The NATS client: whitelist messages and their conversion into updates.  *)
(* Strings that are parsed are sequences of character codes; an optional   *)
(* JSON field is a sequence of zero or one value.                          *)

Ok(value) == [ok |-> TRUE, value |-> value]
Err == [ok |-> FALSE]

\* value of one hex digit (either case), -1 for any other character
HexVal(c) ==
    IF c \in 48..57 THEN c - 48
    ELSE IF c \in 97..102 THEN c - 87
    ELSE IF c \in 65..70 THEN c - 55
    ELSE -1

RECURSIVE HexDecode(_)
HexDecode(hex) ==
    IF Len(hex) < 2 THEN <<>>
    ELSE <<16 * HexVal(hex[1]) + HexVal(hex[2])>>
         \o HexDecode(SubSeq(hex, 3, Len(hex)))

\* hex::decode_to_slice(hex, &mut [0u8; n])
decode_to_slice(hex, n) ==
    IF Len(hex) = 2 * n /\ \A i \in 1..Len(hex) : HexVal(hex[i]) >= 0
    THEN Ok(HexDecode(hex)) ELSE Err

starts_with_0x(s) == Len(s) >= 2 /\ s[1] = 48 /\ s[2] = 120
strip_0x(s) == IF starts_with_0x(s) THEN SubSeq(s, 3, Len(s)) ELSE s

\* Address::from_str: an optional "0x", then the hex digits of the address
Address_from_str(s) == decode_to_slice(strip_0x(s), Len(A1))

\* the identifier of one entry of pools: a pool key when the digits have the
\* length of a key, an address otherwise; Err when the entry is skipped
parse_pool_id(address_str) ==
    LET addr_hex == strip_0x(address_str)
    IN  IF Len(addr_hex) = 2 * Len(K1)
        THEN LET r == decode_to_slice(addr_hex, Len(K1))
             IN  IF r.ok THEN Ok(PoolId(r.value)) ELSE Err
        ELSE LET r == Address_from_str(address_str)
             IN  IF r.ok THEN Ok(Address(r.value)) ELSE Err

parse_protocol(protocol_str) ==
    IF protocol_str = "v2" THEN Ok("UniswapV2")
    ELSE IF protocol_str = "v3" THEN Ok("UniswapV3")
    ELSE IF protocol_str = "v4" THEN Ok("UniswapV4")
    ELSE Err

RECURSIVE parse_pool_entries(_, _, _)
parse_pool_entries(addresses, protocols, i) ==
    IF i > Len(addresses) THEN <<>>
    ELSE LET protocol == parse_protocol(protocols[i])
             pool_id == parse_pool_id(addresses[i])
         IN  (IF protocol.ok /\ pool_id.ok
              THEN <<PoolMetadata(pool_id.value, protocol.value)>>
              ELSE <<>>)
             \o parse_pool_entries(addresses, protocols, i + 1)

parse_pool_addresses(addresses, protocols) ==
    IF Len(addresses) # Len(protocols) THEN Err
    ELSE Ok(parse_pool_entries(addresses, protocols, 1))

RECURSIVE parse_pool_identifiers(_)
parse_pool_identifiers(addresses) ==
    IF addresses = <<>> THEN <<>>
    ELSE LET pool_id == parse_pool_id(Head(addresses))
         IN  (IF pool_id.ok THEN <<pool_id.value>> ELSE <<>>)
             \o parse_pool_identifiers(Tail(addresses))

WhitelistPoolMessage(type, pools, protocols) == [message_type |-> type, pools |-> pools, protocols |-> protocols]

default_message_type == "full"

\* a payload that is no JSON object with a pools array
Garbage == [json |-> FALSE]
Payload(type, pools, protocols) == [json |-> TRUE, type |-> type, pools |-> pools, protocols |-> protocols]

\* serde: an absent type is "full", an absent protocols array is empty
parse_message(payload) ==
    IF ~payload.json THEN Err
    ELSE Ok(WhitelistPoolMessage(
                IF payload.type = <<>> THEN default_message_type ELSE payload.type[1],
                payload.pools,
                IF payload.protocols = <<>> THEN <<>> ELSE payload.protocols[1]))

convert_to_pool_update(message) ==
    IF message.message_type = "remove"
    THEN Ok(Remove(parse_pool_identifiers(message.pools)))
    ELSE LET pools == parse_pool_addresses(message.pools, message.protocols)
         IN  IF ~pools.ok THEN Err
             ELSE IF message.message_type = "add" THEN Ok(Add(pools.value))
             ELSE Ok(Replace(pools.value))

\* the whitelist task after a successful connect and subscribe
IngestorNew == [task |-> "receiving", message |-> Err, backoff |-> 0, slept |-> <<>>]

----------------------------------------------------------------------------
(* Numeric payloads: the signed deltas create_pool_update computes from the *)
(* unsigned amounts of a decoded event.  U256 and I256 are BITS wide here.  *)

BITS == 3               \* width of U256 and I256 (256 in the program)

U256_MAX == 2 ^ BITS - 1
I256_MAX == 2 ^ (BITS - 1) - 1
I256_MIN == -(2 ^ (BITS - 1))
U256 == 0..U256_MAX

\* I256::try_from(U256): Err above I256::MAX
I256_try_from(u) == IF u <= I256_MAX THEN Ok(u) ELSE Err
unwrap_or(r, default) == IF r.ok THEN r.value ELSE default
\* Neg for I256: two's complement
I256_neg(x) == IF x = I256_MIN THEN I256_MIN ELSE -x

V2SwapEvent(amount0_in, amount1_in, amount0_out, amount1_out) == [kind |-> "V2Swap", amount0_in |-> amount0_in, amount1_in |-> amount1_in, amount0_out |-> amount0_out, amount1_out |-> amount1_out]

V2SwapDelta(amount0, amount1) == [update |-> "V2Swap", amount0 |-> amount0, amount1 |-> amount1]

\* DecodedEvent::V2Swap arm of create_pool_update: PoolUpdate::V2Swap
v2_swap_delta(event) ==
    IF event.amount0_in = 0
    THEN V2SwapDelta(I256_neg(unwrap_or(I256_try_from(event.amount0_out), 0)),
                     unwrap_or(I256_try_from(event.amount1_in), 0))
    ELSE V2SwapDelta(unwrap_or(I256_try_from(event.amount0_in), 0),
                     I256_neg(unwrap_or(I256_try_from(event.amount1_out), 0)))

\* u128 and i128 are one bit narrower than U256 and I256 here
U128_MAX == 2 ^ (BITS - 1) - 1
I128_MAX == 2 ^ (BITS - 2) - 1
I128_MIN == -(2 ^ (BITS - 2))
U128 == 0..U128_MAX
I256 == I256_MIN..I256_MAX

\* i128::try_from(u128): Err above i128::MAX
i128_try_from(u) == IF u <= I128_MAX THEN Ok(u) ELSE Err

V3MintEvent(amount) == [kind |-> "V3Mint", amount |-> amount]
V3BurnEvent(amount) == [kind |-> "V3Burn", amount |-> amount]
V3Liquidity(liquidity_delta) == [update |-> "V3Liquidity", liquidity_delta |-> liquidity_delta]

\* DecodedEvent::V3Mint arm: i128::try_from(amount).unwrap_or_else(|_| i128::MAX)
v3_mint_delta(amount) == V3Liquidity(unwrap_or(i128_try_from(amount), I128_MAX))

\* variant: a burn that overflows is clamped to -i128::MAX
v3_burn_delta_symmetric(amount) ==
    LET r == i128_try_from(amount)
    IN  V3Liquidity(IF r.ok THEN -r.value ELSE -I128_MAX)
\* DecodedEvent::V3Burn arm: try_from(amount).map(|v| -v).unwrap_or_else(|_| i128::MIN)
v3_burn_delta(amount) ==
    LET r == i128_try_from(amount)
    IN  V3Liquidity(IF r.ok THEN -r.value ELSE I128_MIN)

\* the ModifyLiquidity log data as decoded by the ABI: liquidityDelta is int256
V4ModifyLiquidityLog(liquidityDelta) == [kind |-> "V4ModifyLiquidity", liquidityDelta |-> liquidityDelta]
V4Liquidity(liquidity_delta) == [update |-> "V4Liquidity", liquidity_delta |-> liquidity_delta]
\* the task panicked: no update
Aborted == [update |-> "Aborted"]

\* I256::into_raw: the two's complement bit pattern as U256
into_raw(x) == IF x >= 0 THEN x ELSE x + 2 ^ BITS
\* U256::saturating_to::<u128>()
saturating_to_u128(u) == Min(u, U128_MAX)

\* -x on I256: I256::MIN has no negation; the build decides between
\* wrapping to I256::MIN and a panic
I256_neg_outcomes(x) == IF x = I256_MIN THEN {Ok(I256_MIN), Err} ELSE {Ok(-x)}

\* magnitude to i128: try_from(abs.saturating_to::<u128>()).unwrap_or(i128::MAX)
narrow_abs(abs) == unwrap_or(i128_try_from(saturating_to_u128(abs)), I128_MAX)

\* decode_log, ModifyLiquidity: the updates the narrowing of liquidityDelta
\* can produce
v4_liquidity_delta(liquidityDelta) ==
    IF liquidityDelta >= 0
    THEN {V4Liquidity(narrow_abs(into_raw(liquidityDelta)))}
    ELSE {IF n.ok THEN V4Liquidity(-narrow_abs(into_raw(n.value))) ELSE Aborted : n \in I256_neg_outcomes(liquidityDelta)}

NoEvent == [kind |-> "None"]
DeltaNew == [event |-> NoEvent, update |-> [update |-> "None"]]

----------------------------------------------------------------------------
(* The balance monitor: the executor's token balances, kept from the       *)
(* Transfer logs of the blocks applied and reverted.  Balances are U256.   *)

EXECUTOR == <<238, 1>>      \* the executor address
COUNTERPARTY == <<190, 2>>  \* any other account
USDC == <<160, 1>>          \* a tracked token
DAI == <<107, 2>>           \* a token that is not tracked

TransferLog(token, from, to, value) == [transfer |-> TRUE, token |-> token, from |-> from, to |-> to, value |-> value]
OtherLog == [transfer |-> FALSE]

\* decode_transfer: None unless topic0 is the Transfer signature
decode_transfer(log) == IF log.transfer THEN Ok(log) ELSE Err

\* TokenTracker::contains
contains(tracker, token) == token \in tracker

saturating_add(a, b) == Min(a + b, U256_MAX)
saturating_sub(a, b) == Max(a - b, 0)

\* the body of the loop over the logs of a receipt; st = [balances, changed]
process_log(st, log, executor, tracker, is_revert) ==
    LET t == decode_transfer(log)
    IN  IF ~t.ok THEN st
        ELSE LET transfer == t.value
                 is_incoming == transfer.to = executor
                 is_outgoing == transfer.from = executor
             IN  IF ~is_incoming /\ ~is_outgoing THEN st
                 ELSE IF ~contains(tracker, transfer.token) THEN st
                 ELSE IF transfer.value = 0 THEN st
                 ELSE IF is_incoming /\ is_outgoing THEN st
                 ELSE LET entry == IF transfer.token \in MapKeys(st.balances) THEN MapGet(st.balances, transfer.token) ELSE 0
                          value == IF is_revert
                                   THEN (IF is_incoming THEN saturating_sub(entry, transfer.value) ELSE saturating_add(entry, transfer.value))
                                   ELSE IF is_incoming THEN saturating_add(entry, transfer.value)
                                   ELSE saturating_sub(entry, transfer.value)
                      IN  [balances |-> MapInsert(st.balances, transfer.token, value),
                           changed |-> Append(st.changed, transfer.token)]

RECURSIVE process_logs(_, _, _, _, _)
process_logs(st, logs, executor, tracker, is_revert) ==
    IF logs = <<>> THEN st
    ELSE process_logs(process_log(st, Head(logs), executor, tracker, is_revert), Tail(logs), executor, tracker, is_revert)

RECURSIVE process_receipts_loop(_, _, _, _, _)
process_receipts_loop(st, receipts, executor, tracker, is_revert) ==
    IF receipts = <<>> THEN st
    ELSE process_receipts_loop(process_logs(st, Head(receipts).logs, executor, tracker, is_revert), Tail(receipts), executor, tracker, is_revert)

\* variant: a revert is processed as an apply
process_receipts_forward(receipts, executor, tracker, balances, changed, is_revert) ==
    process_receipts_loop([balances |-> balances, changed |-> changed], receipts, executor, tracker, FALSE)

process_receipts(receipts, executor, tracker, balances, changed, is_revert) ==
    process_receipts_loop([balances |-> balances, changed |-> changed], receipts, executor, tracker, is_revert)

\* changed.sort_unstable(); changed.dedup(): the tokens pushed, each once
sorted_dedup(changed) == {changed[i] : i \in 1..Len(changed)}

\* process_notification on one block of receipts, applied or reverted
process_notification(receipts, executor, tracker, balances, is_revert) ==
    LET st == process_receipts(receipts, executor, tracker, balances, <<>>, is_revert)
    IN  [balances |-> st.balances, changed |-> sorted_dedup(st.changed)]

MonitorNew == [balances |-> {}, start |-> {}, receipts |-> <<>>, changed |-> {}, step |-> "start"]

----------------------------------------------------------------------------
(* The Chain Processor *)

NoNotification == [kind |-> "None", old |-> <<>>, new |-> <<>>]

\* ctx.notifications: the notifications the host delivers before it closes
\* the stream, and the number of them try_next() has returned
NoStream == [stream |-> <<>>, received |-> 0]

\* Arc<RwLock<PoolTracker>>: the guards alive and the requests waiting, in
\* order of arrival; a guard is [task, mode]
LockNew == [held |-> {}, queue |-> <<>>]

CurrentChain == IF phase = "old" THEN notification.old ELSE notification.new
\* variant: the chain is walked from its newest block to its oldest
CurrentBlockNewestFirst == CurrentChain[Len(CurrentChain) - idx + 1]
CurrentBlock == CurrentChain[idx]
IsRevert == phase = "old"

Init ==
    /\ pool_tracker = PoolTrackerNew
    /\ stream_seq = 0
    /\ emitted = <<>>
    /\ pc = "idle"
    /\ notification = NoNotification
    /\ phase = "new"
    /\ idx = 1
    /\ slot0_resync_required = <<>>
    /\ final_tip_block = 0
    /\ acks = <<>>
    /\ msgs_received = 0
    /\ socket_tx = ChannelNew
    /\ broadcast_tx = BroadcastNew
    /\ clients = [c \in Clients |-> ClientNew]
    /\ ingestor = IngestorNew
    /\ pool_delta = DeltaNew
    /\ balance_monitor = MonitorNew
    /\ notifications = NoStream
    /\ tracker_lock = LockNew

\* ExExNotification::ChainCommitted { new }
CommittedArm(new) ==
    /\ pc = "idle"
    /\ notification' = [kind |-> "ChainCommitted", old |-> <<>>, new |-> new]
    /\ phase' = "new"
    /\ idx' = 1
    /\ pc' = "begin"
    /\ UNCHANGED <<pool_tracker, stream_seq, emitted,
                   slot0_resync_required, final_tip_block, acks,
                   msgs_received>>
    /\ UNCHANGED <<socket_tx, broadcast_tx, clients, ingestor, pool_delta, balance_monitor>>

\* a committed chain taken from the host, the model accepting frames up to MaxSeq
ChainCommitted(new) ==
    /\ stream_seq < MaxSeq
    /\ CommittedArm(new)
    /\ UNCHANGED <<notifications, tracker_lock>>

\* ExExNotification::ChainReorged { old, new }: ranges, ReorgStart
ReorgedArm(old, new) ==
    /\ pc = "idle"
    /\ LET old_range == block_range_summary_from_numbers(BlockNumbers(old))
           new_range == block_range_summary_from_numbers(BlockNumbers(new))
           s == send_reorg_start(Sender(stream_seq, emitted),
                                 old_range, new_range)
       IN  /\ final_tip_block' =
                  IF new_range.last_block # OptNone
                  THEN new_range.last_block[1]
                  ELSE IF old_range.last_block # OptNone
                  THEN old_range.last_block[1]
                  ELSE 0
           /\ stream_seq' = s.seq
           /\ emitted' = s.out
    /\ slot0_resync_required' = <<>>
    /\ notification' = [kind |-> "ChainReorged", old |-> old, new |-> new]
    /\ phase' = "old"
    /\ idx' = 1
    /\ pc' = "begin"
    /\ UNCHANGED <<pool_tracker, acks, msgs_received>>
    /\ TrySendEmitted
    /\ UNCHANGED <<broadcast_tx, clients, ingestor, pool_delta, balance_monitor>>

\* a reorg taken from the host, the model accepting frames up to MaxSeq
ChainReorged(old, new) ==
    /\ stream_seq < MaxSeq
    /\ ReorgedArm(old, new)
    /\ UNCHANGED <<notifications, tracker_lock>>

\* ExExNotification::ChainReverted { old }: range, ReorgStart
RevertedArm(old) ==
    /\ pc = "idle"
    /\ LET old_range == block_range_summary_from_numbers(BlockNumbers(old))
           s == send_reorg_start(Sender(stream_seq, emitted),
                                 old_range, EmptyRange)
       IN  /\ final_tip_block' =
                  IF old_range.first_block # OptNone
                  THEN Max(old_range.first_block[1] - 1, 0)
                  ELSE 0
           /\ stream_seq' = s.seq
           /\ emitted' = s.out
    /\ slot0_resync_required' = <<>>
    /\ notification' = [kind |-> "ChainReverted", old |-> old, new |-> <<>>]
    /\ phase' = "old"
    /\ idx' = 1
    /\ pc' = "begin"
    /\ UNCHANGED <<pool_tracker, acks, msgs_received>>
    /\ TrySendEmitted
    /\ UNCHANGED <<broadcast_tx, clients, ingestor, pool_delta, balance_monitor>>

\* a revert taken from the host, the model accepting frames up to MaxSeq
ChainReverted(old) ==
    /\ stream_seq < MaxSeq
    /\ RevertedArm(old)
    /\ UNCHANGED <<notifications, tracker_lock>>

\* boundary open: begin_block() under the write lock, then BeginBlock
BeginBlockSection ==
    /\ pc = "begin"
    /\ pool_tracker' = begin_block(pool_tracker)
    /\ LET s == send_begin_block(Sender(stream_seq, emitted),
                    CurrentBlock.number, CurrentBlock.timestamp, IsRevert)
       IN  /\ stream_seq' = s.seq
           /\ emitted' = s.out
    /\ pc' = "scan"
    /\ UNCHANGED <<notification, phase, idx, slot0_resync_required,
                   final_tip_block, acks, msgs_received>>
    /\ TrySendEmitted
    /\ UNCHANGED <<broadcast_tx, clients, ingestor, pool_delta, balance_monitor>>

\* the boundary open as one step, the write lock taken and released within it
BeginBlock ==
    /\ BeginBlockSection
    /\ UNCHANGED <<notifications, tracker_lock>>

\* scan and filter under the read lock, emit, drop the lock, then EndBlock
ScanBlockSection ==
    /\ pc = "scan"
    /\ LET st == ScanReceipts(
                     ScanState(Sender(stream_seq, emitted), 0,
                               slot0_resync_required),
                     pool_tracker, CurrentBlock, 0, IsRevert)
           s == send_end_block(st.s, CurrentBlock.number, st.count)
       IN  /\ stream_seq' = s.seq
           /\ emitted' = s.out
           /\ slot0_resync_required' = st.resync
    /\ pc' = "end"
    /\ UNCHANGED <<pool_tracker, notification, phase, idx,
                   final_tip_block, acks, msgs_received>>
    /\ TrySendEmitted
    /\ UNCHANGED <<broadcast_tx, clients, ingestor, pool_delta, balance_monitor>>

\* the scan as one step, the read lock taken and dropped within it
ScanBlock ==
    /\ ScanBlockSection
    /\ UNCHANGED <<notifications, tracker_lock>>

\* boundary close: end_block() under the write lock; next block or loop exit
EndBlockSection ==
    /\ pc = "end"
    /\ pool_tracker' = end_block(pool_tracker)
    /\ IF idx < Len(CurrentChain)
       THEN /\ idx' = idx + 1
            /\ pc' = "begin"
            /\ phase' = phase
       ELSE IF notification.kind = "ChainReorged" /\ phase = "old"
       THEN /\ idx' = 1
            /\ phase' = "new"
            /\ pc' = IF notification.new = <<>> THEN "complete" ELSE "begin"
       ELSE /\ idx' = 1
            /\ phase' = phase
            /\ pc' = IF notification.kind = "ChainCommitted"
                     THEN "ack" ELSE "complete"
    /\ UNCHANGED <<stream_seq, emitted, notification,
                   slot0_resync_required, final_tip_block, acks,
                   msgs_received>>
    /\ UNCHANGED <<socket_tx, broadcast_tx, clients, ingestor, pool_delta, balance_monitor>>

\* the boundary close as one step, the write lock taken and released within it
EndBlock ==
    /\ EndBlockSection
    /\ UNCHANGED <<notifications, tracker_lock>>

\* sort the resync list and send ReorgComplete
ReorgComplete ==
    /\ pc = "complete"
    /\ LET s == send_reorg_complete(Sender(stream_seq, emitted),
                  final_tip_block,
                  sort_pool_identifiers_deterministically(
                      slot0_resync_required))
       IN  /\ stream_seq' = s.seq
           /\ emitted' = s.out
    /\ pc' = "ack"
    /\ UNCHANGED <<pool_tracker, notification, phase, idx,
                   slot0_resync_required, final_tip_block, acks,
                   msgs_received>>
    /\ TrySendEmitted
    /\ UNCHANGED <<broadcast_tx, clients, ingestor, pool_delta, balance_monitor, notifications, tracker_lock>>

\* variant: a reverted chain is reported as committed as well
committed_chain_any(n) ==
    IF n.new # <<>> THEN n.new ELSE n.old

\* notification.committed_chain(): the new chain of a commit or a reorg
committed_chain(n) ==
    IF n.kind \in {"ChainCommitted", "ChainReorged"} THEN n.new ELSE <<>>

\* variant: the first block of the chain
tip_first(chain) == chain[1]

\* committed_chain.tip()
tip(chain) == chain[Len(chain)]

num_hash(block) == [number |-> block.number, hash |-> block.hash]

\* FinishedHeight(tip) when the notification has a committed chain
FinishNotification ==
    /\ pc = "ack"
    /\ LET chain == committed_chain(notification)
       IN  acks' = IF chain # <<>>
                   THEN Append(acks, num_hash(tip(chain))) ELSE acks
    /\ notification' = NoNotification
    /\ pc' = "idle"
    /\ UNCHANGED <<pool_tracker, stream_seq, emitted, phase, idx,
                   slot0_resync_required, final_tip_block, msgs_received>>
    /\ UNCHANGED <<socket_tx, broadcast_tx, clients, ingestor, pool_delta, balance_monitor, notifications, tracker_lock>>

----------------------------------------------------------------------------
(* The Whitelist Ingestor *)

PoolA1 == PoolMetadata(Address(A1), "UniswapV3")
PoolManagerAsAddress ==
    PoolMetadata(Address(UNISWAP_V4_POOL_MANAGER), "UniswapV2")
PoolK1 == PoolMetadata(PoolId(K1), "UniswapV4")
PoolK2 == PoolMetadata(PoolId(K2), "UniswapV4")

WhitelistUpdates ==
    { Replace(<<PoolA1, PoolK2, PoolK1>>),
      Add(<<PoolManagerAsAddress, PoolK1>>),
      Add(<<PoolA1>>),
      Remove(<<Address(UNISWAP_V4_POOL_MANAGER), PoolId(K2)>>),
      Remove(<<PoolId(K1), Address(A1)>>) }

\* one whitelist message: pool_tracker.write().await.queue_update(update)
WhitelistMessage(update) ==
    /\ msgs_received < MaxMessages
    /\ pool_tracker' = queue_update(pool_tracker, update)
    /\ msgs_received' = msgs_received + 1
    /\ UNCHANGED <<stream_seq, emitted, pc, notification, phase, idx,
                   slot0_resync_required, final_tip_block, acks>>
    /\ UNCHANGED <<socket_tx, broadcast_tx, clients, ingestor, pool_delta, balance_monitor, notifications, tracker_lock>>

----------------------------------------------------------------------------

ChainLens == 1..MaxChainLen
Seeds == 0..(Len(Bodies) - 1)

\* the old and the new chain of a reorg fork at the same block and differ
\* in their receipts
Next ==
    \/ \E len \in ChainLens, seed \in Seeds :
           ChainCommitted(Chain(FirstBlock, len, seed))
    \/ \E o \in ChainLens, n \in ChainLens, seed \in Seeds :
           ChainReorged(Chain(FirstBlock, o, seed),
                        Chain(FirstBlock, n, seed + 1 + Len(Bodies)))
    \/ \E len \in ChainLens, seed \in Seeds :
           ChainReverted(Chain(FirstBlock, len, seed))
    \/ BeginBlock
    \/ ScanBlock
    \/ EndBlock
    \/ ReorgComplete
    \/ FinishNotification
    \/ \E update \in WhitelistUpdates : WhitelistMessage(update)

Spec == Init /\ [][Next]_vars

----------------------------------------------------------------------------
(* The Chain Processor on commits, reorgs and reverts of chains of every   *)
(* length, with a whitelist that is replaced as a whole                     *)

ReorgNext ==
    \/ \E len \in ChainLens, seed \in Seeds :
           ChainCommitted(Chain(FirstBlock, len, seed))
    \/ \E o \in ChainLens, n \in ChainLens, seed \in Seeds :
           ChainReorged(Chain(FirstBlock, o, seed),
                        Chain(FirstBlock, n, seed + 1 + Len(Bodies)))
    \/ \E len \in ChainLens, seed \in Seeds :
           ChainReverted(Chain(FirstBlock, len, seed))
    \/ BeginBlock
    \/ ScanBlock
    \/ EndBlock
    \/ ReorgComplete
    \/ FinishNotification
    \/ WhitelistMessage(Replace(<<PoolA1, PoolK2, PoolK1>>))

ReorgSpec == Init /\ [][ReorgNext]_vars

----------------------------------------------------------------------------
(* The PoolTracker on its own: queue_update as the Ingestor calls it,      *)
(* begin_block and end_block alternating as the Chain Processor calls them *)

TrackerQueueUpdate(update) ==
    /\ msgs_received < MaxUpdates
    /\ pool_tracker' = queue_update(pool_tracker, update)
    /\ msgs_received' = msgs_received + 1
    /\ UNCHANGED <<stream_seq, emitted, pc, notification, phase, idx,
                   slot0_resync_required, final_tip_block, acks>>
    /\ UNCHANGED <<socket_tx, broadcast_tx, clients, ingestor, pool_delta, balance_monitor, notifications, tracker_lock>>

TrackerBeginBlock ==
    /\ ~pool_tracker.in_block
    /\ pool_tracker' = begin_block(pool_tracker)
    /\ UNCHANGED <<stream_seq, emitted, pc, notification, phase, idx,
                   slot0_resync_required, final_tip_block, acks,
                   msgs_received>>
    /\ UNCHANGED <<socket_tx, broadcast_tx, clients, ingestor, pool_delta, balance_monitor, notifications, tracker_lock>>

TrackerEndBlock ==
    /\ pool_tracker.in_block
    /\ pool_tracker' = end_block(pool_tracker)
    /\ UNCHANGED <<stream_seq, emitted, pc, notification, phase, idx,
                   slot0_resync_required, final_tip_block, acks,
                   msgs_received>>
    /\ UNCHANGED <<socket_tx, broadcast_tx, clients, ingestor, pool_delta, balance_monitor, notifications, tracker_lock>>

TrackerNext ==
    \/ \E update \in WhitelistUpdates : TrackerQueueUpdate(update)
    \/ TrackerBeginBlock
    \/ TrackerEndBlock

TrackerSpec == Init /\ [][TrackerNext]_vars

----------------------------------------------------------------------------
(* The Whitelist Ingestor task on its own: messages of the bus are parsed, *)
(* converted and queued while the tracker's block windows open and close   *)

MaxIngest == 2          \* messages taken from the subscription

RawA1 == <<48, 120>> \o HexEncode(A1)       \* "0x" and the digits of A1
RawK1 == HexEncode(K1)                      \* the digits of K1, no "0x"
RawShort == <<48, 120>> \o HexEncode(<<17>>)   \* too short for an address
RawManager == <<48, 120>> \o HexEncode(UNISWAP_V4_POOL_MANAGER)

PoolsArrays == {<<>>, <<RawA1>>, <<RawA1, RawK1>>, <<RawShort, RawK1>>, <<RawK1, RawManager>>}
ProtocolsArrays == {<<>>, <<"v3">>, <<"v2">>, <<"v3", "v4">>, <<"v5", "v4">>, <<"v4", "v2">>}
MessageTypes == {"add", "remove", "full", "swap"}

Payloads ==
    {Garbage} \cup
    { Payload(type, pools, protocols) :
          type \in {<<>>} \cup {<<t>> : t \in MessageTypes},
          pools \in PoolsArrays,
          protocols \in {<<>>} \cup {<<p>> : p \in ProtocolsArrays} }

\* one turn of `while let Some(message) = current_sub.next().await`
IngestMessage(payload) ==
    /\ ingestor.task = "receiving"
    /\ msgs_received < MaxIngest
    /\ LET message == parse_message(payload)
           update == IF message.ok THEN convert_to_pool_update(message.value) ELSE Err
       IN  /\ pool_tracker' = IF update.ok THEN queue_update(pool_tracker, update.value) ELSE pool_tracker
           /\ ingestor' = [ingestor EXCEPT !.message = message]
    /\ msgs_received' = msgs_received + 1
    /\ UNCHANGED <<stream_seq, emitted, pc, notification, phase, idx, slot0_resync_required, final_tip_block, acks>>
    /\ UNCHANGED <<socket_tx, broadcast_tx, clients, pool_delta, balance_monitor, notifications, tracker_lock>>

IngestNext ==
    \/ \E payload \in Payloads : IngestMessage(payload)
    \/ TrackerBeginBlock
    \/ TrackerEndBlock

IngestSpec == Init /\ [][IngestNext]_vars

----------------------------------------------------------------------------
(* The Whitelist Ingestor task losing and restoring its subscription *)

MaxRetries == 7         \* failed subscribe calls in a row
INITIAL_BACKOFF == 1    \* seconds
MAX_BACKOFF == 30       \* seconds

\* variant: the wait doubles without a ceiling
next_backoff_uncapped(backoff) == backoff * 2
next_backoff(backoff) == Min(backoff * 2, MAX_BACKOFF)

\* current_sub.next() returns None: the subscription is closed
SubscriptionClosed ==
    /\ ingestor.task = "receiving"
    /\ ingestor' = [ingestor EXCEPT !.task = "resubscribing", !.backoff = INITIAL_BACKOFF, !.slept = <<>>]
    /\ UNCHANGED <<pool_tracker, stream_seq, emitted, pc, notification, phase, idx, slot0_resync_required, final_tip_block, acks, msgs_received>>
    /\ UNCHANGED <<socket_tx, broadcast_tx, clients, pool_delta, balance_monitor, notifications, tracker_lock>>

\* sleep(backoff), then subscribe_whitelist: Ok resumes receiving, Err
\* lengthens the next wait
Resubscribe(ok) ==
    /\ ingestor.task = "resubscribing"
    /\ ok \/ Len(ingestor.slept) < MaxRetries
    /\ ingestor' = IF ok
                   THEN [ingestor EXCEPT !.task = "receiving", !.backoff = 0, !.slept = Append(@, ingestor.backoff)]
                   ELSE [ingestor EXCEPT !.backoff = next_backoff(@), !.slept = Append(@, ingestor.backoff)]
    /\ UNCHANGED <<pool_tracker, stream_seq, emitted, pc, notification, phase, idx, slot0_resync_required, final_tip_block, acks, msgs_received>>
    /\ UNCHANGED <<socket_tx, broadcast_tx, clients, pool_delta, balance_monitor, notifications, tracker_lock>>

ResubscribePayloads == {Payload(<<"add">>, <<RawA1>>, <<<<"v3">>>>), Payload(<<"remove">>, <<RawA1>>, <<>>)}

ResubscribeNext ==
    \/ \E payload \in ResubscribePayloads : IngestMessage(payload)
    \/ SubscriptionClosed
    \/ \E ok \in BOOLEAN : Resubscribe(ok)
    \/ TrackerBeginBlock
    \/ TrackerEndBlock

ResubscribeSpec == Init /\ [][ResubscribeNext]_vars

----------------------------------------------------------------------------
(* create_pool_update on decoded events with every combination of amounts *)

DeltaEvents ==
    {V2SwapEvent(a, b, c, d) : a \in U256, b \in U256, c \in U256, d \in U256}
    \cup {V3MintEvent(a) : a \in U128} \cup {V3BurnEvent(a) : a \in U128}
    \cup {V4ModifyLiquidityLog(d) : d \in I256}

\* an event with any amounts, before its update is built
DeltaInit ==
    /\ pool_tracker = PoolTrackerNew
    /\ stream_seq = 0
    /\ emitted = <<>>
    /\ pc = "idle"
    /\ notification = NoNotification
    /\ phase = "new"
    /\ idx = 1
    /\ slot0_resync_required = <<>>
    /\ final_tip_block = 0
    /\ acks = <<>>
    /\ msgs_received = 0
    /\ socket_tx = ChannelNew
    /\ broadcast_tx = BroadcastNew
    /\ clients = [c \in Clients |-> ClientNew]
    /\ ingestor = IngestorNew
    /\ \E event \in DeltaEvents : pool_delta = [DeltaNew EXCEPT !.event = event]
    /\ balance_monitor = MonitorNew
    /\ notifications = NoStream
    /\ tracker_lock = LockNew

\* DecodedEvent::V2Swap arm of create_pool_update
CreateV2Swap ==
    /\ pool_delta.event.kind = "V2Swap"
    /\ pool_delta.update.update = "None"
    /\ pool_delta' = [pool_delta EXCEPT !.update = v2_swap_delta(pool_delta.event)]
    /\ UNCHANGED <<pool_tracker, stream_seq, emitted, pc, notification, phase, idx, slot0_resync_required, final_tip_block, acks, msgs_received, ingestor, balance_monitor, notifications, tracker_lock>>
    /\ UNCHANGED <<socket_tx, broadcast_tx, clients>>

\* DecodedEvent::V3Mint and V3Burn arms of create_pool_update
CreateV3Liquidity ==
    /\ pool_delta.event.kind \in {"V3Mint", "V3Burn"}
    /\ pool_delta.update.update = "None"
    /\ pool_delta' = [pool_delta EXCEPT !.update = IF pool_delta.event.kind = "V3Mint" THEN v3_mint_delta(pool_delta.event.amount) ELSE v3_burn_delta(pool_delta.event.amount)]
    /\ UNCHANGED <<pool_tracker, stream_seq, emitted, pc, notification, phase, idx, slot0_resync_required, final_tip_block, acks, msgs_received, ingestor, balance_monitor, notifications, tracker_lock>>
    /\ UNCHANGED <<socket_tx, broadcast_tx, clients>>

\* decode_log on a ModifyLiquidity log, then the V4ModifyLiquidity arm of
\* create_pool_update, which passes liquidity_delta on
CreateV4Liquidity ==
    /\ pool_delta.event.kind = "V4ModifyLiquidity"
    /\ pool_delta.update.update = "None"
    /\ \E update \in v4_liquidity_delta(pool_delta.event.liquidityDelta) :
           pool_delta' = [pool_delta EXCEPT !.update = update]
    /\ UNCHANGED <<pool_tracker, stream_seq, emitted, pc, notification, phase, idx, slot0_resync_required, final_tip_block, acks, msgs_received, ingestor, balance_monitor, notifications, tracker_lock>>
    /\ UNCHANGED <<socket_tx, broadcast_tx, clients>>

DeltaNext ==
    \/ CreateV2Swap
    \/ CreateV3Liquidity
    \/ CreateV4Liquidity

DeltaSpec == DeltaInit /\ [][DeltaNext]_vars

----------------------------------------------------------------------------
(* The Chain Processor on one-block chains while the bus adds a V4 pool    *)
(* and removes it again                                                     *)

ChurnUpdates == {Add(<<PoolK1>>), Remove(<<PoolId(K1)>>)}

\* one whitelist message: pool_tracker.write().await.queue_update(update)
WhitelistChurn(update) ==
    /\ msgs_received < MaxChurn
    /\ pool_tracker' = queue_update(pool_tracker, update)
    /\ msgs_received' = msgs_received + 1
    /\ UNCHANGED <<stream_seq, emitted, pc, notification, phase, idx, slot0_resync_required, final_tip_block, acks>>
    /\ UNCHANGED <<socket_tx, broadcast_tx, clients, ingestor, pool_delta, balance_monitor, notifications, tracker_lock>>

ChurnNext ==
    \/ \E seed \in Seeds : ChainCommitted(Chain(FirstBlock, 1, seed))
    \/ \E seed \in Seeds : ChainReorged(Chain(FirstBlock, 1, seed), Chain(FirstBlock, 1, seed + 1 + Len(Bodies)))
    \/ \E seed \in Seeds : ChainReverted(Chain(FirstBlock, 1, seed))
    \/ BeginBlock
    \/ ScanBlock
    \/ EndBlock
    \/ ReorgComplete
    \/ FinishNotification
    \/ \E update \in ChurnUpdates : WhitelistChurn(update)

ChurnSpec == Init /\ [][ChurnNext]_vars

----------------------------------------------------------------------------
(* Observations on the emitted frame sequence *)

Frames == 1..Len(emitted)
IsType(i, type) == emitted[i].type = type
NoneBetween(i, j, types) ==
    \A k \in (i + 1)..(j - 1) : emitted[k].type \notin types
UpdatesBetween(i, j) ==
    {k \in (i + 1)..(j - 1) : emitted[k].type = "PoolUpdate"}

\* index of the last BeginBlock, 0 when there is none
LastBegin ==
    LET B == {i \in Frames : IsType(i, "BeginBlock")}
    IN  IF B = {} THEN 0 ELSE CHOOSE i \in B : \A k \in B : k <= i

\* index of the last ReorgStart, 0 when there is none
LastReorgStart ==
    LET B == {i \in Frames : IsType(i, "ReorgStart")}
    IN  IF B = {} THEN 0 ELSE CHOOSE i \in B : \A k \in B : k <= i

PairLessEq(a, b) == a[1] < b[1] \/ (a[1] = b[1] /\ a[2] <= b[2])

Position(i) == <<emitted[i].event.tx_index, emitted[i].event.log_index>>

TrackedIdentifier(t, id) ==
    IF id.tag = "Address" THEN id.bytes \in t.tracked_addresses
    ELSE id.bytes \in t.tracked_pool_ids

----------------------------------------------------------------------------
(* C1: the stream_seq values of the emitted frames are strictly increasing  *)
(* in emission order, across all notifications.                             *)
C1_StreamSeqStrictlyIncreasing ==
    /\ \A i \in Frames : \A j \in Frames :
           i < j => emitted[i].stream_seq < emitted[j].stream_seq
    /\ emitted # <<>> => emitted[Len(emitted)].stream_seq = stream_seq

\* frames of every type, over more than one notification
C1_Witness ==
    /\ \E i \in Frames : \E j \in Frames :
           /\ i < j
           /\ IsType(i, "ReorgComplete")
           /\ IsType(j, "ReorgStart")
    /\ \E i \in Frames : IsType(i, "PoolUpdate")
    /\ \E i \in Frames : IsType(i, "EndBlock")

(* C2: every EndBlock{n, num_updates} closes exactly one un-closed          *)
(* BeginBlock{n}, and exactly num_updates PoolUpdate frames lie between.    *)
C2_EndBlockCountsUpdates ==
    \A j \in Frames :
        IsType(j, "EndBlock") =>
            LET open == {i \in 1..(j - 1) :
                            /\ IsType(i, "BeginBlock")
                            /\ NoneBetween(i, j, {"EndBlock"})}
            IN  /\ Cardinality(open) = 1
                /\ \A i \in open :
                       /\ emitted[i].block_number = emitted[j].block_number
                       /\ Cardinality(UpdatesBetween(i, j)) =
                              emitted[j].num_updates

\* a committed block and a reverted block that each closed with updates
C2_Witness ==
    /\ \E j \in Frames : IsType(j, "EndBlock") /\ emitted[j].num_updates >= 3
    /\ \E j \in Frames : IsType(j, "EndBlock") /\ emitted[j].num_updates = 0
    /\ \E i \in Frames : IsType(i, "BeginBlock") /\ emitted[i].is_revert
    /\ \E i \in Frames : IsType(i, "BeginBlock") /\ ~emitted[i].is_revert

(* C3: from a BeginBlock{n} to its EndBlock{n} only PoolUpdate frames       *)
(* appear, each with block_number = n, in non-decreasing                    *)
(* (tx_index, log_index) order.                                             *)
C3_WindowContents ==
    \A i \in Frames :
        IsType(i, "BeginBlock") =>
            \A k \in Frames :
                (i < k /\ NoneBetween(i, k, {"EndBlock"})) =>
                    /\ emitted[k].type \in {"PoolUpdate", "EndBlock"}
                    /\ IsType(k, "EndBlock") =>
                           emitted[k].block_number = emitted[i].block_number
                    /\ IsType(k, "PoolUpdate") =>
                           /\ emitted[k].event.block_number =
                                  emitted[i].block_number
                           /\ k - 1 > i =>
                                  PairLessEq(Position(k - 1), Position(k))

\* a window whose updates span two transactions, the later one restarting
\* at a smaller log index
C3_Witness ==
    \E k \in Frames :
        /\ k > 1
        /\ IsType(k, "PoolUpdate")
        /\ IsType(k - 1, "PoolUpdate")
        /\ emitted[k].event.tx_index > emitted[k - 1].event.tx_index
        /\ emitted[k].event.log_index < emitted[k - 1].event.log_index

(* C4: while a block is open (after begin_block, before end_block) no step  *)
(* of any task changes the tracked-address set or the tracked-pool-id set.  *)
C4_MembershipFrozenInBlock ==
    [][(pool_tracker.in_block /\ pool_tracker'.in_block) =>
          /\ pool_tracker'.tracked_addresses = pool_tracker.tracked_addresses
          /\ pool_tracker'.tracked_pool_ids = pool_tracker.tracked_pool_ids
      ]_vars

\* an update is queued in an open block and would change the membership
C4_Witness ==
    /\ pool_tracker.in_block
    /\ pool_tracker.pending_updates # <<>>
    /\ end_block(pool_tracker).tracked_addresses #
           pool_tracker.tracked_addresses
    /\ end_block(pool_tracker).tracked_pool_ids #
           pool_tracker.tracked_pool_ids

(* C5: an Add(P) queued while a block is open leaves P untracked and      *)
(* without PoolUpdate in that block; end_block() empties the queue, after   *)
(* it P is tracked and a log of P in the next block yields a PoolUpdate.    *)
PendingAdds(t) ==
    {t.pending_updates[i].pools[j].pool_id :
        <<i, j>> \in {<<i, j>> \in (1..Len(t.pending_updates)) \X (1..2) :
                         /\ t.pending_updates[i].op = "Add"
                         /\ j <= Len(t.pending_updates[i].pools)}}

\* identifiers of an Add that no later Remove or Replace of the queue follows
PendingAddsKept(t) ==
    {t.pending_updates[i].pools[j].pool_id :
        <<i, j>> \in {<<i, j>> \in (1..Len(t.pending_updates)) \X (1..2) :
                         /\ t.pending_updates[i].op = "Add"
                         /\ j <= Len(t.pending_updates[i].pools)
                         /\ \A k \in (i + 1)..Len(t.pending_updates) :
                                t.pending_updates[k].op = "Add"}}

\* a block that holds one swap log of the pool
BlockWithLogOf(id, number) ==
    [number |-> number, timestamp |-> Timestamp(number),
     receipts |-> << << IF id.tag = "Address"
                        THEN Log(id.bytes, "V3Swap", K1, 0)
                        ELSE Log(UNISWAP_V4_POOL_MANAGER, "V4Swap",
                                 id.bytes, 0) >> >>]

YieldsUpdateFor(t, id, number) ==
    LET st == ScanReceipts(ScanState(Sender(stream_seq, <<>>), 0, <<>>),
                           t, BlockWithLogOf(id, number), 0, FALSE)
    IN  /\ st.count = 1
        /\ Len(st.s.out) = 1
        /\ st.s.out[1].event.pool_id = id

C5_OpenBlock ==
    pool_tracker.in_block =>
        \A id \in PendingAdds(pool_tracker) :
            ~TrackedIdentifier(pool_tracker, id) =>
                \A k \in Frames :
                    (k > LastBegin /\ IsType(k, "PoolUpdate")) =>
                        emitted[k].event.pool_id # id

C5_MidBlockAddTakesEffectAtEndBlock ==
    [][/\ C5_OpenBlock
       /\ C5_OpenBlock'
       /\ (pool_tracker.in_block /\ pool_tracker'.in_block) =>
              \A id \in PendingAdds(pool_tracker) :
                  ~TrackedIdentifier(pool_tracker, id) =>
                      ~TrackedIdentifier(pool_tracker', id)
       /\ (pool_tracker.in_block /\ ~pool_tracker'.in_block) =>
              /\ pool_tracker'.pending_updates = <<>>
              /\ \A id \in PendingAddsKept(pool_tracker) :
                     /\ TrackedIdentifier(pool_tracker', id)
                     /\ YieldsUpdateFor(pool_tracker', id,
                                        CurrentBlock.number + 1)
      ]_vars

\* the block was scanned with Add(P) pending: a log of P in it was dropped
C5_Witness ==
    /\ pc = "end"
    /\ pool_tracker.pending_updates = <<Add(<<PoolA1>>)>>
    /\ ~is_tracked_address(pool_tracker, A1)
    /\ \E tx \in 1..Len(CurrentBlock.receipts) :
           \E li \in 1..Len(CurrentBlock.receipts[tx]) :
               CurrentBlock.receipts[tx][li].address = A1
    /\ emitted[Len(emitted)].type = "EndBlock"
    /\ emitted[Len(emitted)].num_updates = 0

(* C6: every ReorgStart is followed by at least one BeginBlock/EndBlock     *)
(* pair and then by one ReorgComplete, with no other ReorgStart in between; *)
(* every ReorgComplete closes a ReorgStart.                                 *)
C6_ReorgBracketsBalanced ==
    /\ \A i \in Frames :
           IsType(i, "ReorgStart") =>
               LET nxt == {j \in Frames :
                              /\ j > i
                              /\ emitted[j].type \in
                                     {"ReorgStart", "ReorgComplete"}}
               IN  IF nxt = {}
                   THEN /\ pc \in {"begin", "scan", "end", "complete"}
                        /\ notification.kind \in
                               {"ChainReorged", "ChainReverted"}
                        /\ pc = "complete" =>
                               \E e \in Frames : e > i /\ IsType(e, "EndBlock")
                   ELSE LET j == CHOOSE j \in nxt : \A k \in nxt : j <= k
                        IN  /\ IsType(j, "ReorgComplete")
                            /\ \E b \in (i + 1)..(j - 1) :
                                   \E e \in (b + 1)..(j - 1) :
                                       /\ IsType(b, "BeginBlock")
                                       /\ IsType(e, "EndBlock")
    /\ \A j \in Frames :
           IsType(j, "ReorgComplete") =>
               \E i \in 1..(j - 1) :
                   /\ IsType(i, "ReorgStart")
                   /\ NoneBetween(i, j, {"ReorgStart", "ReorgComplete"})

\* a revert bracket and a reorg bracket, both closed
C6_Witness ==
    \E i \in Frames : \E j \in Frames :
        /\ i < j
        /\ IsType(i, "ReorgComplete")
        /\ IsType(j, "ReorgComplete")
        /\ \E k \in Frames :
               IsType(k, "ReorgStart") /\ emitted[k].new_range.block_count > 0
        /\ \E k \in Frames :
               IsType(k, "ReorgStart") /\ emitted[k].new_range.block_count = 0

(* C7: in a Reorged notification the block windows are those of old, in     *)
(* host order and with is_revert = true, followed by those of new, in host  *)
(* order and with is_revert = false.                                        *)
RECURSIVE WindowsOf(_, _)
WindowsOf(chain, is_revert) ==
    IF chain = <<>> THEN <<>>
    ELSE << <<Head(chain).number, Head(chain).timestamp, is_revert>> >>
         \o WindowsOf(Tail(chain), is_revert)

RECURSIVE BeginsFrom(_)
BeginsFrom(i) ==
    IF i > Len(emitted) THEN <<>>
    ELSE IF IsType(i, "BeginBlock")
    THEN << <<emitted[i].block_number, emitted[i].block_timestamp,
              emitted[i].is_revert>> >> \o BeginsFrom(i + 1)
    ELSE BeginsFrom(i + 1)

IsPrefix(a, b) == Len(a) <= Len(b) /\ a = SubSeq(b, 1, Len(a))

C7_ReorgRevertsOldThenAppliesNew ==
    notification.kind = "ChainReorged" =>
        LET expected == WindowsOf(notification.old, TRUE)
                        \o WindowsOf(notification.new, FALSE)
            begins == BeginsFrom(LastReorgStart)
        IN  /\ LastReorgStart > 0
            /\ IsPrefix(begins, expected)
            /\ pc \in {"complete", "ack"} => begins = expected

\* a reorg of two old and two new blocks, all processed
C7_Witness ==
    /\ notification.kind = "ChainReorged"
    /\ Len(notification.old) = 2
    /\ Len(notification.new) = 2
    /\ pc = "ack"

(* C8: a V3Swap or V4Swap update with is_revert = true has its pool         *)
(* identifier exactly once in slot0_resync_required of the next             *)
(* ReorgComplete; that list holds address-keyed pools before opaque-key     *)
(* pools and is byte-lexicographically ordered within each group.           *)
Occurrences(list, id) == Cardinality({i \in 1..Len(list) : list[i] = id})

RECURSIVE BytesLess(_, _)
BytesLess(a, b) ==
    IF b = <<>> THEN FALSE
    ELSE IF a = <<>> THEN TRUE
    ELSE IF Head(a) # Head(b) THEN Head(a) < Head(b)
    ELSE BytesLess(Tail(a), Tail(b))

SortedIdentifiers(list) ==
    \A i \in 1..Len(list) : \A j \in 1..Len(list) :
        i < j =>
            \/ list[i].tag = "Address" /\ list[j].tag = "PoolId"
            \/ /\ list[i].tag = list[j].tag
               /\ BytesLess(list[i].bytes, list[j].bytes)

C8_Slot0ResyncList ==
    /\ \A k \in Frames :
           ( /\ IsType(k, "PoolUpdate")
             /\ emitted[k].event.is_revert
             /\ emitted[k].event.update \in {"V3Swap", "V4Swap"} ) =>
               LET done == {j \in Frames :
                               j > k /\ IsType(j, "ReorgComplete")}
               IN  IF done = {}
                   THEN /\ pc \in {"end", "begin", "scan", "complete"}
                        /\ Occurrences(slot0_resync_required,
                                       emitted[k].event.pool_id) = 1
                   ELSE LET j == CHOOSE j \in done : \A m \in done : j <= m
                        IN  Occurrences(emitted[j].slot0_resync_required,
                                        emitted[k].event.pool_id) = 1
    /\ \A j \in Frames :
           IsType(j, "ReorgComplete") =>
               SortedIdentifiers(emitted[j].slot0_resync_required)

\* a ReorgComplete listing two address-keyed and two opaque-key pools, after
\* one of them was reverted twice
C8_Witness ==
    \E j \in Frames :
        /\ IsType(j, "ReorgComplete")
        /\ Len(emitted[j].slot0_resync_required) = 4
        /\ \E k \in 1..(j - 1) : \E m \in 1..(j - 1) :
               /\ k < m
               /\ IsType(k, "PoolUpdate") /\ IsType(m, "PoolUpdate")
               /\ emitted[k].event.is_revert /\ emitted[m].event.is_revert
               /\ emitted[k].event.update = "V3Swap"
               /\ emitted[m].event.update = "V3Swap"
               /\ emitted[k].event.pool_id = emitted[m].event.pool_id

(* C9: whenever an opaque-key (V4) pool is tracked, the manager contract    *)
(* address is in the tracked-address set.                                   *)
C9_ManagerTrackedWithV4Pools ==
    pool_tracker.tracked_pool_ids # {} =>
        UNISWAP_V4_POOL_MANAGER \in pool_tracker.tracked_addresses

(* C10: a log of a processed block yields a PoolUpdate exactly when its     *)
(* emitter is in the tracked-address set, it has a supported event shape    *)
(* and its decoded identity is tracked (the pool address for V2/V3 shapes,  *)
(* the pool key for V4 shapes); the update carries that identity.           *)
LogPositions(block) ==
    {<<tx, li>> \in (0..2) \X (0..2) :
        /\ tx < Len(block.receipts)
        /\ li < Len(block.receipts[tx + 1])}

LogAt(block, pos) == block.receipts[pos[1] + 1][pos[2] + 1]

PassesBothStages(t, log) ==
    /\ log.address \in t.tracked_addresses
    /\ log.sig \in AddressEventKinds \cup PoolIdEventKinds
    /\ IF log.sig \in PoolIdEventKinds
       THEN log.topic1 \in t.tracked_pool_ids
       ELSE log.address \in t.tracked_addresses

LogIdentity(log) ==
    IF log.sig \in PoolIdEventKinds
    THEN PoolId(log.topic1) ELSE Address(log.address)

C10_TwoStageFilter ==
    pc = "end" =>
        LET W == UpdatesBetween(LastBegin, Len(emitted))
            passing == {pos \in LogPositions(CurrentBlock) :
                           PassesBothStages(pool_tracker,
                                            LogAt(CurrentBlock, pos))}
        IN  /\ {Position(k) : k \in W} = passing
            /\ Cardinality(W) = Cardinality(passing)
            /\ \A k \in W :
                   emitted[k].event.pool_id =
                       LogIdentity(LogAt(CurrentBlock, Position(k)))

\* a scanned block with a V4 swap of an untracked key emitted by the tracked
\* manager, next to logs that passed
C10_Witness ==
    /\ pc = "end"
    /\ UpdatesBetween(LastBegin, Len(emitted)) # {}
    /\ \E pos \in LogPositions(CurrentBlock) :
           LET log == LogAt(CurrentBlock, pos)
           IN  /\ log.address = UNISWAP_V4_POOL_MANAGER
               /\ log.sig = "V4Swap"
               /\ is_tracked_address(pool_tracker, log.address)
               /\ ~is_tracked_pool_id(pool_tracker, log.topic1)

----------------------------------------------------------------------------
(* The socket server, fed frame by frame through the producer channel *)

procVars == <<pool_tracker, stream_seq, emitted, pc, notification, phase, idx, slot0_resync_required, final_tip_block, acks, msgs_received, ingestor, pool_delta, balance_monitor, notifications, tracker_lock>>

\* the Processor hands the server one frame: send_begin_block of the next
\* block, in place of a whole notification
ProducerSend ==
    /\ stream_seq < MaxFrames
    /\ LET s == send_begin_block(Sender(stream_seq, emitted), FirstBlock + stream_seq, Timestamp(FirstBlock + stream_seq), FALSE)
       IN  /\ stream_seq' = s.seq
           /\ emitted' = s.out
    /\ TrySendEmitted
    /\ UNCHANGED <<broadcast_tx, clients, ingestor, pool_delta, balance_monitor, notifications, tracker_lock>>
    /\ UNCHANGED <<pool_tracker, pc, notification, phase, idx, slot0_resync_required, final_tip_block, acks, msgs_received>>

\* listener.accept(), broadcast_tx.subscribe(), spawn handle_client
Accept(c) ==
    /\ clients[c].task = "none"
    /\ clients' = [clients EXCEPT ![c].task = "recv", ![c].next = subscribe(broadcast_tx), ![c].subscribed_at = Len(broadcast_tx.sent)]
    /\ UNCHANGED <<socket_tx, broadcast_tx>>
    /\ UNCHANGED procVars

\* broadcast loop: message_rx.recv().await, then broadcast_tx.send(message)
SocketRecv ==
    /\ socket_tx.queue # <<>>
    /\ ~socket_tx.closed
    /\ socket_tx' = [socket_tx EXCEPT !.queue = Tail(@), !.taken = @ + 1]
    /\ broadcast_tx' = broadcast_send(broadcast_tx, Head(socket_tx.queue))
    /\ UNCHANGED clients
    /\ UNCHANGED procVars

\* variant: a lagged receiver carries on from the oldest message retained
HandlerRecvSkip(c) ==
    /\ clients[c].task = "recv"
    /\ clients[c].next < Len(broadcast_tx.sent)
    /\ LET from == Max(clients[c].next, RingStart(broadcast_tx))
       IN  clients' = [clients EXCEPT ![c].task = "write", ![c].message = <<broadcast_tx.sent[from + 1]>>, ![c].next = from + 1]
    /\ UNCHANGED <<socket_tx, broadcast_tx>>
    /\ UNCHANGED procVars

\* handle_client: broadcast_rx.recv().await; Ok(msg), or Lagged and break
HandlerRecv(c) ==
    /\ clients[c].task = "recv"
    /\ clients[c].next < Len(broadcast_tx.sent)
    /\ IF clients[c].next < RingStart(broadcast_tx)
       THEN clients' = [clients EXCEPT ![c].task = "done"]
       ELSE clients' = [clients EXCEPT ![c].task = "write", ![c].message = <<broadcast_tx.sent[clients[c].next + 1]>>, ![c].next = @ + 1]
    /\ UNCHANGED <<socket_tx, broadcast_tx>>
    /\ UNCHANGED procVars

\* handle_client: serialize, write_all(len), write_all(bytes), flush; the
\* writes complete once the stream has room: a reading subscriber drains
\* its stream, one that stopped reading leaves the frames in it; on a
\* stream whose peer has closed a write returns Err and the loop breaks
HandlerWrite(c) ==
    /\ clients[c].task = "write"
    /\ IF clients[c].closed
       THEN clients' = [clients EXCEPT ![c].task = "done", ![c].message = <<>>]
       ELSE /\ clients[c].unread < StreamBuffer
            /\ clients' = [clients EXCEPT ![c].task = "recv", ![c].wire = Append(@, clients[c].message[1]), ![c].message = <<>>, ![c].unread = IF clients[c].reading THEN 0 ELSE @ + 1]
    /\ UNCHANGED <<socket_tx, broadcast_tx>>
    /\ UNCHANGED procVars

\* the subscriber stops reading and keeps the connection open
ClientStopReading(c) ==
    /\ clients[c].task \in {"recv", "write"}
    /\ clients[c].reading
    /\ clients' = [clients EXCEPT ![c].reading = FALSE, ![c].stopped_at = Len(broadcast_tx.sent)]
    /\ UNCHANGED <<socket_tx, broadcast_tx>>
    /\ UNCHANGED procVars

SocketNext ==
    \/ ProducerSend
    \/ SocketRecv
    \/ \E c \in Clients : Accept(c)
    \/ \E c \in Clients : HandlerRecv(c)
    \/ \E c \in Clients : HandlerWrite(c)
    \/ \E c \in Clients : ClientStopReading(c)

\* the tasks of the runtime are scheduled fairly
SocketFairness ==
    /\ WF_vars(ProducerSend)
    /\ WF_vars(SocketRecv)
    /\ \A c \in Clients : WF_vars(HandlerRecv(c))
    /\ \A c \in Clients : WF_vars(HandlerWrite(c))

SocketSpec == Init /\ [][SocketNext]_vars /\ SocketFairness

----------------------------------------------------------------------------
(* The Chain Processor committing and reverting one-block chains, with the *)
(* server draining the producer channel at its own pace or gone; the frames *)
(* of one scan reach the channel without the server running in between      *)

\* the server task is cancelled: message_rx is dropped, the channel closes
SocketServerStop ==
    /\ ~socket_tx.closed
    /\ socket_tx' = [socket_tx EXCEPT !.closed = TRUE]
    /\ UNCHANGED <<broadcast_tx, clients, pool_delta, balance_monitor, notifications, tracker_lock>>
    /\ UNCHANGED procVars

LossyNext ==
    \/ \E seed \in Seeds : ChainCommitted(Chain(FirstBlock, 1, seed))
    \/ \E seed \in Seeds : ChainReverted(Chain(FirstBlock, 1, seed))
    \/ BeginBlock
    \/ ScanBlock
    \/ EndBlock
    \/ ReorgComplete
    \/ FinishNotification
    \/ WhitelistMessage(Replace(<<PoolA1, PoolK2, PoolK1>>))
    \/ SocketRecv
    \/ SocketServerStop

LossySpec == Init /\ [][LossyNext]_vars

----------------------------------------------------------------------------
(* The socket server with subscribers that disconnect and connect again *)

\* the subscriber closes its end of the stream; the handler task learns of
\* it at its next write
ClientClose(c) ==
    /\ clients[c].task \in {"recv", "write"}
    /\ ~clients[c].closed
    /\ clients' = [clients EXCEPT ![c].closed = TRUE]
    /\ UNCHANGED <<socket_tx, broadcast_tx>>
    /\ UNCHANGED procVars

\* the old handler has returned (its receiver and stream are dropped); the
\* subscriber connects again: accept(), subscribe(), a new handle_client
Reconnect(c) ==
    /\ clients[c].task = "done"
    /\ clients' = [clients EXCEPT ![c] = [ClientNew EXCEPT !.task = "recv", !.next = subscribe(broadcast_tx), !.subscribed_at = Len(broadcast_tx.sent)]]
    /\ UNCHANGED <<socket_tx, broadcast_tx>>
    /\ UNCHANGED procVars

ReconnectNext ==
    \/ ProducerSend
    \/ SocketRecv
    \/ \E c \in Clients : Accept(c)
    \/ \E c \in Clients : HandlerRecv(c)
    \/ \E c \in Clients : HandlerWrite(c)
    \/ \E c \in Clients : ClientClose(c)
    \/ \E c \in Clients : Reconnect(c)

ReconnectSpec == Init /\ [][ReconnectNext]_vars

----------------------------------------------------------------------------
(* The Chain Processor and the Whitelist Ingestor at the granularity of    *)
(* the tracker lock, on a stream of notifications that the host closes      *)

MaxNotifications == 2   \* notifications the host delivers before it closes

Guard(task, mode) == [task |-> task, mode |-> mode]

\* pool_tracker.read().await / pool_tracker.write().await: the request
\* joins the lock's queue
lock_request(l, g) == [l EXCEPT !.queue = Append(@, g)]

\* requests are served in order of arrival: a read guard is granted while
\* only read guards are alive, a write guard while no guard is alive
lock_grantable(l) ==
    /\ l.queue # <<>>
    /\ \A h \in l.held : h.mode = "read" /\ Head(l.queue).mode = "read"

lock_grant(l) == [l EXCEPT !.held = @ \cup {Head(l.queue)}, !.queue = Tail(@)]

\* a guard goes out of scope at the end of its block or statement
guard_scope_end(l, g) == [l EXCEPT !.held = @ \ {g}]

\* variant: the read guard of the scan lives on to the end of the loop body
keep_guard(l, g) == l

\* drop(pool_tracker)
drop_guard(l, g) == [l EXCEPT !.held = @ \ {g}]

Waiting(l, task) == \E i \in 1..Len(l.queue) : l.queue[i].task = task
Holds(l, task) == \E h \in l.held : h.task = task

Committed(new) == [kind |-> "ChainCommitted", old |-> <<>>, new |-> new]
Reorged(old, new) == [kind |-> "ChainReorged", old |-> old, new |-> new]
Reverted(old) == [kind |-> "ChainReverted", old |-> old, new |-> <<>>]

LockNotifications ==
    { Committed(Chain(FirstBlock, 2, 1)),
      Reorged(Chain(FirstBlock, 1, 1), Chain(FirstBlock, 1, 2 + Len(Bodies))),
      Reverted(Chain(FirstBlock, 1, 2)) }

RECURSIVE StreamsOfLen(_)
StreamsOfLen(n) ==
    IF n = 0 THEN {<<>>}
    ELSE {Append(st, x) : st \in StreamsOfLen(n - 1), x \in LockNotifications}

LockStreams == UNION {StreamsOfLen(n) : n \in 0..MaxNotifications}

LockUpdates == {Replace(<<PoolA1, PoolK2, PoolK1>>), Remove(<<PoolId(K1), Address(A1)>>)}

LockInit ==
    /\ pool_tracker = PoolTrackerNew
    /\ stream_seq = 0
    /\ emitted = <<>>
    /\ pc = "idle"
    /\ notification = NoNotification
    /\ phase = "new"
    /\ idx = 1
    /\ slot0_resync_required = <<>>
    /\ final_tip_block = 0
    /\ acks = <<>>
    /\ msgs_received = 0
    /\ socket_tx = ChannelNew
    /\ broadcast_tx = BroadcastNew
    /\ clients = [c \in Clients |-> ClientNew]
    /\ ingestor = IngestorNew
    /\ pool_delta = DeltaNew
    /\ balance_monitor = MonitorNew
    /\ \E st \in LockStreams : notifications = [NoStream EXCEPT !.stream = st]
    /\ tracker_lock = LockNew

\* ctx.notifications.try_next().await? returns Some(notification)
LockReceive ==
    /\ notifications.received < Len(notifications.stream)
    /\ LET n == notifications.stream[notifications.received + 1]
       IN  CASE n.kind = "ChainCommitted" -> CommittedArm(n.new)
             [] n.kind = "ChainReorged" -> ReorgedArm(n.old, n.new)
             [] n.kind = "ChainReverted" -> RevertedArm(n.old)
    /\ notifications' = [notifications EXCEPT !.received = @ + 1]
    /\ UNCHANGED tracker_lock

\* try_next() returns None: the loop ends and liquidity_exex returns Ok(())
LockExit ==
    /\ pc = "idle"
    /\ notifications.received = Len(notifications.stream)
    /\ pc' = "exited"
    /\ UNCHANGED <<pool_tracker, stream_seq, emitted, notification, phase, idx, slot0_resync_required, final_tip_block, acks, msgs_received>>
    /\ UNCHANGED <<socket_tx, broadcast_tx, clients, ingestor, pool_delta, balance_monitor, notifications, tracker_lock>>

\* the Processor arrives at write().await before begin_block, at
\* read().await before the scan, at write().await before end_block
LockRequest ==
    /\ pc \in {"begin", "scan", "end"}
    /\ ~Waiting(tracker_lock, "processor")
    /\ IF pc = "end"
       THEN Guard("processor", "write") \notin tracker_lock.held
       ELSE ~Holds(tracker_lock, "processor")
    /\ tracker_lock' = lock_request(tracker_lock, Guard("processor", IF pc = "scan" THEN "read" ELSE "write"))
    /\ UNCHANGED <<pool_tracker, stream_seq, emitted, pc, notification, phase, idx, slot0_resync_required, final_tip_block, acks, msgs_received>>
    /\ UNCHANGED <<socket_tx, broadcast_tx, clients, ingestor, pool_delta, balance_monitor, notifications>>

\* the lock hands the guard to the request at the head of its queue
LockGrant ==
    /\ lock_grantable(tracker_lock)
    /\ tracker_lock' = lock_grant(tracker_lock)
    /\ UNCHANGED <<pool_tracker, stream_seq, emitted, pc, notification, phase, idx, slot0_resync_required, final_tip_block, acks, msgs_received>>
    /\ UNCHANGED <<socket_tx, broadcast_tx, clients, ingestor, pool_delta, balance_monitor, notifications>>

\* { let mut pool_tracker = ..write().await; pool_tracker.begin_block(); }
LockBeginBlock ==
    /\ Guard("processor", "write") \in tracker_lock.held
    /\ BeginBlockSection
    /\ tracker_lock' = guard_scope_end(tracker_lock, Guard("processor", "write"))
    /\ UNCHANGED notifications

\* the scan under the read guard, then drop(pool_tracker)
LockScanBlock ==
    /\ Guard("processor", "read") \in tracker_lock.held
    /\ ScanBlockSection
    /\ tracker_lock' = drop_guard(tracker_lock, Guard("processor", "read"))
    /\ UNCHANGED notifications

\* { let mut pool_tracker = ..write().await; pool_tracker.end_block(); };
\* in the ChainCommitted arm, when blocks_processed % 100 == 0, the
\* Processor goes on to read().await for the statistics
LockEndBlock ==
    /\ Guard("processor", "write") \in tracker_lock.held
    /\ EndBlockSection
    /\ \E stats_due \in BOOLEAN :
           /\ stats_due => notification.kind = "ChainCommitted"
           /\ tracker_lock' =
                  IF stats_due
                  THEN lock_request(guard_scope_end(tracker_lock, Guard("processor", "write")), Guard("processor", "read"))
                  ELSE guard_scope_end(tracker_lock, Guard("processor", "write"))
    /\ UNCHANGED notifications

\* pool_tracker.stats() under the read guard, which ends with the `if`
LockStats ==
    /\ pc \in {"begin", "ack"}
    /\ Guard("processor", "read") \in tracker_lock.held
    /\ tracker_lock' = guard_scope_end(tracker_lock, Guard("processor", "read"))
    /\ UNCHANGED <<pool_tracker, stream_seq, emitted, pc, notification, phase, idx, slot0_resync_required, final_tip_block, acks, msgs_received>>
    /\ UNCHANGED <<socket_tx, broadcast_tx, clients, ingestor, pool_delta, balance_monitor, notifications>>

\* ctx.events.send(FinishedHeight), reached after the loops of the arm
LockFinish ==
    /\ ~Waiting(tracker_lock, "processor")
    /\ ~Holds(tracker_lock, "processor")
    /\ FinishNotification

\* a whitelist message was converted: the task arrives at write().await
IngestorRequest ==
    /\ msgs_received < MaxMessages
    /\ ~Waiting(tracker_lock, "ingestor")
    /\ ~Holds(tracker_lock, "ingestor")
    /\ tracker_lock' = lock_request(tracker_lock, Guard("ingestor", "write"))
    /\ UNCHANGED <<pool_tracker, stream_seq, emitted, pc, notification, phase, idx, slot0_resync_required, final_tip_block, acks, msgs_received>>
    /\ UNCHANGED <<socket_tx, broadcast_tx, clients, ingestor, pool_delta, balance_monitor, notifications>>

\* pool_tracker.write().await.queue_update(update);
IngestorQueueUpdate(update) ==
    /\ Guard("ingestor", "write") \in tracker_lock.held
    /\ pool_tracker' = queue_update(pool_tracker, update)
    /\ msgs_received' = msgs_received + 1
    /\ tracker_lock' = guard_scope_end(tracker_lock, Guard("ingestor", "write"))
    /\ UNCHANGED <<stream_seq, emitted, pc, notification, phase, idx, slot0_resync_required, final_tip_block, acks>>
    /\ UNCHANGED <<socket_tx, broadcast_tx, clients, ingestor, pool_delta, balance_monitor, notifications>>

LockNext ==
    \/ LockReceive
    \/ LockExit
    \/ LockRequest
    \/ LockGrant
    \/ LockBeginBlock
    \/ LockScanBlock
    \/ LockEndBlock
    \/ LockStats
    \/ ReorgComplete
    \/ LockFinish
    \/ IngestorRequest
    \/ \E update \in LockUpdates : IngestorQueueUpdate(update)

ProcessorStep ==
    \/ LockReceive
    \/ LockExit
    \/ LockRequest
    \/ LockBeginBlock
    \/ LockScanBlock
    \/ LockEndBlock
    \/ LockStats
    \/ ReorgComplete
    \/ LockFinish

\* the states in which the Processor task can take a step: it is not
\* waiting for the lock
ProcessorEnabled ==
    \/ pc \in {"idle", "complete"}
    \/ /\ pc \in {"begin", "scan", "end"}
       /\ ~Waiting(tracker_lock, "processor")
    \/ /\ pc = "ack"
       /\ Holds(tracker_lock, "processor") \/ ~Waiting(tracker_lock, "processor")

\* the two tasks and the lock's wake-ups are scheduled fairly; whether a
\* whitelist message arrives is up to the bus.  The first conjunct is
\* WF_vars(ProcessorStep) with ProcessorEnabled for ENABLED <<ProcessorStep>>_vars
LockFairness ==
    /\ ([]<>(~ProcessorEnabled) \/ []<><<ProcessorStep>>_vars)
    /\ WF_vars(LockGrant)
    /\ WF_vars(\E update \in LockUpdates : IngestorQueueUpdate(update))

LockSpec == LockInit /\ [][LockNext]_vars /\ LockFairness

----------------------------------------------------------------------------
(* The balance monitor on its own: a block of receipts is applied          *)
(* (ChainCommitted) and the same block is then reverted (ChainReverted).   *)

TrackedTokens == {USDC}
Accounts == {EXECUTOR, COUNTERPARTY}
MonitorLogs == {TransferLog(token, from, to, value) : token \in {USDC, DAI}, from \in Accounts, to \in Accounts, value \in U256} \cup {OtherLog}
MonitorReceipts == {<<[logs |-> <<log>>]>> : log \in MonitorLogs} \cup {<<[logs |-> <<OtherLog>>], [logs |-> <<>>]>>}
StartBalances == {{}} \cup {MapInsert({}, USDC, b) : b \in U256}

BalanceInit ==
    /\ pool_tracker = PoolTrackerNew
    /\ stream_seq = 0
    /\ emitted = <<>>
    /\ pc = "idle"
    /\ notification = NoNotification
    /\ phase = "new"
    /\ idx = 1
    /\ slot0_resync_required = <<>>
    /\ final_tip_block = 0
    /\ acks = <<>>
    /\ msgs_received = 0
    /\ socket_tx = ChannelNew
    /\ broadcast_tx = BroadcastNew
    /\ clients = [c \in Clients |-> ClientNew]
    /\ ingestor = IngestorNew
    /\ pool_delta = DeltaNew
    /\ \E b \in StartBalances, r \in MonitorReceipts : balance_monitor = [MonitorNew EXCEPT !.balances = b, !.start = b, !.receipts = r]
    /\ notifications = NoStream
    /\ tracker_lock = LockNew

MonitorFrame == UNCHANGED <<pool_tracker, stream_seq, emitted, pc, notification, phase, idx, slot0_resync_required, final_tip_block, acks, msgs_received, socket_tx, broadcast_tx, clients, ingestor, pool_delta, notifications, tracker_lock>>

\* ChainCommitted { new }: the receipts are applied
MonitorCommitted ==
    /\ balance_monitor.step = "start"
    /\ LET r == process_notification(balance_monitor.receipts, EXECUTOR, TrackedTokens, balance_monitor.balances, FALSE)
       IN  balance_monitor' = [balance_monitor EXCEPT !.balances = r.balances, !.changed = r.changed, !.step = "applied"]
    /\ MonitorFrame

\* ChainReverted { old }: the same receipts are reverted
MonitorReverted ==
    /\ balance_monitor.step = "applied"
    /\ LET r == process_notification(balance_monitor.receipts, EXECUTOR, TrackedTokens, balance_monitor.balances, TRUE)
       IN  balance_monitor' = [balance_monitor EXCEPT !.balances = r.balances, !.changed = r.changed, !.step = "reverted"]
    /\ MonitorFrame

BalanceNext == MonitorCommitted \/ MonitorReverted

BalanceSpec == BalanceInit /\ [][BalanceNext]_vars


(* C11: while the whitelist is empty, the scan of a block emits no         *)
(* PoolUpdate: the block's frames are BeginBlock followed at once by        *)
(* EndBlock with num_updates = 0.                                           *)
WhitelistEmpty(t) == t.pools_by_address = {} /\ t.pools_by_id = {}

BareWindow ==
    /\ emitted # <<>>
    /\ emitted[Len(emitted)].type = "BeginBlock"
    /\ emitted' = Append(emitted, [type |-> "EndBlock", stream_seq |-> stream_seq + 1, block_number |-> emitted[Len(emitted)].block_number, num_updates |-> 0])

Stalled(c) ==
    /\ clients[c].task \in {"recv", "write"}
    /\ ~clients[c].reading
    /\ Len(broadcast_tx.sent) - clients[c].stopped_at > BUFFER_SIZE

C12_StalledSubscriberDisconnected ==
    \A c \in Clients : Stalled(c) ~> (clients[c].task = "done")

(* C13: the frames written to a subscriber are the frames broadcast since   *)
(* it subscribed, each once, in broadcast order and without a gap, whatever *)
(* the other subscribers do; a subscriber that reads is brought up to the   *)
(* last frame broadcast unless it is disconnected for lagging, and the      *)
(* producer channel is always drained.                                      *)
WireFaithful(c) ==
    LET w == clients[c].wire
        from == clients[c].subscribed_at
    IN  /\ from + Len(w) <= Len(broadcast_tx.sent)
        /\ w = SubSeq(broadcast_tx.sent, from + 1, from + Len(w))

CaughtUp(c) ==
    \/ clients[c].task = "done"
    \/ ~clients[c].reading
    \/ clients[c].task = "recv" /\ clients[c].next = Len(broadcast_tx.sent)

C13_SubscribersIndependent ==
    /\ [](\A c \in Clients : WireFaithful(c))
    /\ \A c \in Clients : (clients[c].task \in {"recv", "write"} /\ clients[c].reading) ~> CaughtUp(c)
    /\ []<>(socket_tx.queue = <<>>)

C13_Witness ==
    /\ clients["A"].reading
    /\ clients["A"].task = "recv"
    /\ Len(clients["A"].wire) >= 3
    /\ clients["A"].next = Len(broadcast_tx.sent)
    /\ ~clients["B"].reading
    /\ clients["B"].task = "write"
    /\ clients["B"].unread = StreamBuffer
    /\ Stalled("B")

(* C14: a frame whose try_send fails is dropped, that frame only, and the   *)
(* Processor goes on: every frame built takes the next stream_seq whether   *)
(* it was queued or dropped, the queued frames are the frames built, an     *)
(* EndBlock counts the PoolUpdate frames built in its block, and a          *)
(* notification is acknowledged however many of its frames were dropped.    *)
QueuedSeqs == {socket_tx.queue[k].stream_seq : k \in 1..Len(socket_tx.queue)}
FailedSeqs == {socket_tx.failed[k] : k \in 1..Len(socket_tx.failed)}

C14_FailedSendDropsOneFrame ==
    /\ stream_seq = Len(emitted)
    /\ \A i \in Frames : emitted[i].stream_seq = i
    /\ socket_tx.taken + Len(socket_tx.queue) + Len(socket_tx.failed) = Len(emitted)
    /\ Cardinality(QueuedSeqs) = Len(socket_tx.queue)
    /\ Cardinality(FailedSeqs) = Len(socket_tx.failed)
    /\ QueuedSeqs \cap FailedSeqs = {}
    /\ \A k \in 1..Len(socket_tx.queue) : socket_tx.queue[k] = emitted[socket_tx.queue[k].stream_seq]
    /\ \A j \in Frames : IsType(j, "EndBlock") => (j > emitted[j].num_updates + 1 /\ IsType(j - emitted[j].num_updates - 1, "BeginBlock") /\ \A k \in (j - emitted[j].num_updates)..(j - 1) : IsType(k, "PoolUpdate"))
    /\ (pc = "idle" /\ emitted # <<>>) => (emitted[Len(emitted)].type \in {"EndBlock", "ReorgComplete"} /\ Len(acks) = Cardinality({i \in Frames : IsType(i, "EndBlock") /\ ~emitted[i - 1 - emitted[i].num_updates].is_revert}))

\* a PoolUpdate dropped by a full channel, the EndBlock of its block
\* counting it, and a frame of a later step queued
C14_Witness ==
    /\ ~socket_tx.closed
    /\ \E f \in FailedSeqs :
           /\ IsType(f, "PoolUpdate")
           /\ \E j \in Frames : j > f /\ IsType(j, "EndBlock") /\ emitted[j].num_updates >= j - f
           /\ \E q \in QueuedSeqs : q > f

(* C15: a Committed notification is acknowledged exactly once: no           *)
(* FinishedHeight is sent while it is processed, and the one sent when it   *)
(* is finished carries the (number, hash) of the last block of its chain,   *)
(* after that block's EndBlock was emitted and end_block() has run.         *)
C15_CommittedAcknowledgedOnce ==
    [][notification.kind = "ChainCommitted" =>
          IF notification' = notification
          THEN acks' = acks
          ELSE LET last == notification.new[Len(notification.new)]
               IN  /\ acks' = Append(acks, [number |-> last.number, hash |-> last.hash])
                   /\ emitted' = emitted
                   /\ emitted[Len(emitted)].type = "EndBlock"
                   /\ emitted[Len(emitted)].block_number = last.number
                   /\ ~pool_tracker.in_block
                   /\ pool_tracker.pending_updates = <<>>
      ]_vars

\* a two-block commit, acknowledged, as the first notification
C15_Witness ==
    /\ pc = "idle"
    /\ emitted # <<>>
    /\ emitted[1].type = "BeginBlock"
    /\ Len(acks) = 1
    /\ acks[1].number = FirstBlock + 1
    /\ \E i \in Frames : IsType(i, "PoolUpdate")

(* C16: while a Reorged or a Reverted notification is processed and when    *)
(* it is finished, no FinishedHeight is sent.                               *)
C16_NoAckForReorgOrRevert ==
    [][notification.kind \in {"ChainReorged", "ChainReverted"} => acks' = acks]_vars

(* C16 as amended: a Reverted notification sends no FinishedHeight; a       *)
(* Reorged notification sends none while it is processed and, when it is    *)
(* finished, one that carries the (number, hash) of the last block of its   *)
(* new chain.                                                               *)
C16_AckForReorgNotForRevert ==
    [][/\ notification.kind = "ChainReverted" => acks' = acks
       /\ notification.kind = "ChainReorged" =>
              IF notification' = notification
              THEN acks' = acks
              ELSE LET last == notification.new[Len(notification.new)]
                   IN  /\ acks' = Append(acks, [number |-> last.number, hash |-> last.hash])
                       /\ emitted[Len(emitted)].type = "ReorgComplete"
      ]_vars

\* a revert, not acknowledged, then a reorg, acknowledged
C16_Witness ==
    /\ pc = "idle"
    /\ Len(acks) = 1
    /\ emitted # <<>>
    /\ emitted[1].type = "ReorgStart"
    /\ emitted[1].new_range.block_count = 0
    /\ \E i \in Frames : IsType(i, "ReorgStart") /\ emitted[i].new_range.block_count > 0
    /\ emitted[Len(emitted)].type = "ReorgComplete"

(* C17: from any tracker state, Replace(P) followed by Replace(Q), applied  *)
(* at once or queued during a block and drained by end_block(), leaves the  *)
(* pools of Q and no other tracked, with the per-protocol counts of Q.      *)
PoolUniverse == {PoolA1, PoolManagerAsAddress, PoolK1, PoolK2}

PoolLists == {<<>>} \cup {<<a>> : a \in PoolUniverse} \cup {<<a, b>> : a \in PoolUniverse, b \in PoolUniverse}

PoolsOf(list) == {list[i] : i \in 1..Len(list)}

HoldsExactly(t, Q) ==
    LET addrs == {q.pool_id.bytes : q \in {x \in PoolsOf(Q) : x.pool_id.tag = "Address"}}
        keys == {q.pool_id.bytes : q \in {x \in PoolsOf(Q) : x.pool_id.tag = "PoolId"}}
    IN  /\ MapKeys(t.pools_by_address) = addrs
        /\ MapKeys(t.pools_by_id) = keys
        /\ t.tracked_pool_ids = keys
        /\ t.tracked_addresses = addrs \cup (IF keys = {} THEN {} ELSE {UNISWAP_V4_POOL_MANAGER})
        /\ t.v2_count = Cardinality({q \in PoolsOf(Q) : q.protocol = "UniswapV2"})
        /\ t.v3_count = Cardinality({q \in PoolsOf(Q) : q.protocol = "UniswapV3"})
        /\ t.v4_count = Cardinality({q \in PoolsOf(Q) : q.protocol = "UniswapV4"})

C17_ReplaceThenReplace ==
    \A P \in PoolLists : \A Q \in PoolLists :
        /\ ~pool_tracker.in_block =>
               HoldsExactly(queue_update(queue_update(pool_tracker, Replace(P)), Replace(Q)), Q)
        /\ pool_tracker.in_block =>
               HoldsExactly(end_block(queue_update(queue_update(pool_tracker, Replace(P)), Replace(Q))), Q)

(* C18: a whitelist message whose pools and protocols arrays differ in      *)
(* length is rejected whatever its type: the step that consumes it leaves   *)
(* the tracker, its pending queue included, as it was.                      *)
LengthMismatch(message) == message.ok /\ Len(message.value.pools) # Len(message.value.protocols)

C18_LengthMismatchRejected ==
    [][(msgs_received' # msgs_received /\ LengthMismatch(ingestor'.message)) => pool_tracker' = pool_tracker]_vars

(* C19: after the subscription closes the task sleeps 1 s before the first  *)
(* resubscribe attempt and doubles the wait after each failure up to 30 s   *)
(* (1, 2, 4, 8, 16, 30, 30, ...); it is always either receiving or about to *)
(* retry, a retry is always possible, and it never leaves these positions.  *)
ExpectedWait(i) == IF i <= 5 THEN 2 ^ (i - 1) ELSE 30

C19_ResubscribeBackoff ==
    /\ ingestor.task \in {"receiving", "resubscribing"}
    /\ \A i \in 1..Len(ingestor.slept) : ingestor.slept[i] = ExpectedWait(i)
    /\ ingestor.task = "resubscribing" =>
           /\ ingestor.backoff = ExpectedWait(Len(ingestor.slept) + 1)
           /\ ENABLED Resubscribe(TRUE)
    /\ (ingestor.task = "receiving" /\ msgs_received < MaxIngest) =>
           \A payload \in ResubscribePayloads : ENABLED IngestMessage(payload)

C19_Witness ==
    /\ ingestor.task = "receiving"
    /\ Len(ingestor.slept) >= 7
    /\ ingestor.slept[6] = 30
    /\ ingestor.slept[7] = 30

(* C20: for every V2 Swap event the emitted delta is amount0 = -amount0Out, *)
(* amount1 = +amount1In when amount0In = 0, and amount0 = +amount0In,       *)
(* amount1 = -amount1Out otherwise, for every unsigned input.               *)
C20_V2SwapDelta ==
    pool_delta.update.update = "V2Swap" =>
        IF pool_delta.event.amount0_in = 0
        THEN /\ pool_delta.update.amount0 = -pool_delta.event.amount0_out
             /\ pool_delta.update.amount1 = pool_delta.event.amount1_in
        ELSE /\ pool_delta.update.amount0 = pool_delta.event.amount0_in
             /\ pool_delta.update.amount1 = -pool_delta.event.amount1_out

(* C21: for every V2 swap whose four amounts are not all zero, the emitted  *)
(* amount0 and amount1 are both non-zero and have opposite signs.           *)
C21_V2SwapOppositeSigns ==
    (/\ pool_delta.update.update = "V2Swap"
     /\ <<pool_delta.event.amount0_in, pool_delta.event.amount1_in, pool_delta.event.amount0_out, pool_delta.event.amount1_out>> # <<0, 0, 0, 0>>) =>
        \/ pool_delta.update.amount0 > 0 /\ pool_delta.update.amount1 < 0
        \/ pool_delta.update.amount0 < 0 /\ pool_delta.update.amount1 > 0

(* C22: for a V3 Mint or Burn with unsigned amount a, liquidity_delta is +a *)
(* for a mint and -a for a burn while a <= i128::MAX; above, a mint gives   *)
(* i128::MAX and a burn i128::MIN; an update is produced in every case.     *)
C22_V3LiquiditySaturates ==
    (pool_delta.event.kind \in {"V3Mint", "V3Burn"} /\ pool_delta.update.update # "None") =>
        /\ pool_delta.update.update = "V3Liquidity"
        /\ pool_delta.update.liquidity_delta =
               IF pool_delta.event.kind = "V3Mint"
               THEN (IF pool_delta.event.amount <= I128_MAX THEN pool_delta.event.amount ELSE I128_MAX)
               ELSE (IF pool_delta.event.amount <= I128_MAX THEN -pool_delta.event.amount ELSE I128_MIN)

C22_Witness ==
    /\ pool_delta.event.kind = "V3Burn"
    /\ pool_delta.event.amount > I128_MAX
    /\ pool_delta.update.update = "V3Liquidity"
    /\ pool_delta.update.liquidity_delta = I128_MIN

(* C23: for a V4 ModifyLiquidity with signed liquidityDelta d the narrowed  *)
(* value is d while i128::MIN <= d <= i128::MAX, i128::MAX when d is above  *)
(* i128::MAX and i128::MIN when d is below i128::MIN.                       *)
C23_V4LiquidityNarrowing ==
    (pool_delta.event.kind = "V4ModifyLiquidity" /\ pool_delta.update.update # "None") =>
        /\ pool_delta.update.update = "V4Liquidity"
        /\ pool_delta.update.liquidity_delta =
               IF pool_delta.event.liquidityDelta > I128_MAX THEN I128_MAX
               ELSE IF pool_delta.event.liquidityDelta < I128_MIN THEN I128_MIN
               ELSE pool_delta.event.liquidityDelta

(* C24: the final_tip_block of a ReorgComplete is the highest block number  *)
(* of new for a Reorged notification and first(old) - 1 for a Reverted one, *)
(* whose ReorgStart carries an empty new range.                             *)
LastFrame == emitted[Len(emitted)]
NewLastFrame == emitted'[Len(emitted')]
Emits(type) == Len(emitted') > Len(emitted) /\ NewLastFrame.type = type
HighestNumber(chain) == CHOOSE n \in {chain[i].number : i \in 1..Len(chain)} : \A i \in 1..Len(chain) : chain[i].number <= n

C24_FinalTipBlock ==
    [][/\ (Emits("ReorgComplete") /\ notification.kind = "ChainReorged") =>
              NewLastFrame.final_tip_block = HighestNumber(notification.new)
       /\ (Emits("ReorgComplete") /\ notification.kind = "ChainReverted") =>
              NewLastFrame.final_tip_block = notification.old[1].number - 1
       /\ (Emits("ReorgStart") /\ notification'.kind = "ChainReverted") =>
              NewLastFrame.new_range = [first_block |-> <<>>, last_block |-> <<>>, block_count |-> 0]
       /\ Emits("ReorgComplete") => notification.kind \in {"ChainReorged", "ChainReverted"}]_vars

C24_Witness ==
    /\ pc = "ack"
    /\ notification.kind = "ChainReorged"
    /\ Len(notification.new) >= 2
    /\ Len(notification.old) = 1
    /\ LastFrame.type = "ReorgComplete"
    /\ LastFrame.final_tip_block = FirstBlock + Len(notification.new) - 1

(* C25: block synchronization only delays whitelist updates.  The tracker   *)
(* with its queue drained always equals the tracker obtained by applying    *)
(* every update at once in arrival order: a consumed message advances that  *)
(* drained state by exactly its update, begin_block and end_block leave it  *)
(* alone, and outside a block the queue is empty, so the tracker is that    *)
(* state.                                                                   *)
Drained(t) == end_block(t)
LastUpdate(i) == IF i.message.ok THEN convert_to_pool_update(i.message.value) ELSE Err

C25_SynchronizationOnlyDelays ==
    /\ [](~pool_tracker.in_block => pool_tracker.pending_updates = <<>>)
    /\ [][IF msgs_received' # msgs_received /\ LastUpdate(ingestor').ok
          THEN Drained(pool_tracker') = ApplyUpdate(Drained(pool_tracker), LastUpdate(ingestor').value)
          ELSE Drained(pool_tracker') = Drained(pool_tracker)]_vars

C25_Witness ==
    /\ pool_tracker.in_block
    /\ Len(pool_tracker.pending_updates) >= 2
    /\ pool_tracker.pending_updates[1].op = "Add"
    /\ pool_tracker.pending_updates[2].op = "Remove"
    /\ Drained(pool_tracker) # Drained([pool_tracker EXCEPT !.pending_updates = <<@[2], @[1]>>])

(* C26: Add is idempotent.  Adding a pool whose identifier is tracked       *)
(* changes nothing (membership, stored metadata, counts), whatever metadata *)
(* the added pool carries, and Add(p) followed by Add(p) leaves the state   *)
(* of a single Add(p), applied at once or through the queue.                *)
AddCandidates == PoolUniverse \cup {PoolMetadata(Address(A1), "UniswapV2"), PoolMetadata(PoolId(K1), "UniswapV3")}

IdTracked(t, id) == IF id.tag = "Address" THEN id.bytes \in t.tracked_addresses ELSE id.bytes \in t.tracked_pool_ids

C26_AddIdempotent ==
    \A p \in AddCandidates :
        LET t == Drained(pool_tracker)
            once == queue_update(t, Add(<<p>>))
        IN  /\ IdTracked(t, p.pool_id) => once = t
            /\ queue_update(once, Add(<<p>>)) = once
            /\ queue_update(t, Add(<<p, p>>)) = once
            /\ end_block(queue_update(queue_update(begin_block(t), Add(<<p>>)), Add(<<p>>))) = once

C26_Witness ==
    /\ ~pool_tracker.in_block
    /\ A1 \in MapKeys(pool_tracker.pools_by_address)
    /\ MapGet(pool_tracker.pools_by_address, A1).protocol = "UniswapV3"
    /\ K1 \in pool_tracker.tracked_pool_ids
    /\ pool_tracker.v3_count = 1
    /\ pool_tracker.v4_count >= 1

(* C27: Remove(ids) deletes exactly the listed identifiers that are         *)
(* tracked, is a no-op for those that are not, leaves every other tracked   *)
(* pool unchanged and never removes the manager contract address from the   *)
(* tracked-address set, even when no V4 pool remains.                       *)
IdUniverse == {Address(A1), Address(A2), Address(UNISWAP_V4_POOL_MANAGER), PoolId(K1), PoolId(K2)}

IdLists == {<<>>} \cup {<<a>> : a \in IdUniverse} \cup {<<a, b>> : a \in IdUniverse, b \in IdUniverse}

Listed(ids, tag) == {ids[i].bytes : i \in {j \in 1..Len(ids) : ids[j].tag = tag}}

RemovesExactly(t, ids, r) ==
    /\ r.pools_by_address = {e \in t.pools_by_address : e.k \notin Listed(ids, "Address")}
    /\ r.pools_by_id = {e \in t.pools_by_id : e.k \notin Listed(ids, "PoolId")}
    /\ r.tracked_pool_ids = t.tracked_pool_ids \ Listed(ids, "PoolId")
    /\ r.tracked_addresses \subseteq t.tracked_addresses
    /\ t.tracked_addresses \ r.tracked_addresses \subseteq Listed(ids, "Address")
    /\ UNISWAP_V4_POOL_MANAGER \in t.tracked_addresses => UNISWAP_V4_POOL_MANAGER \in r.tracked_addresses
    /\ (Listed(ids, "Address") \cap MapKeys(t.pools_by_address) = {} /\ Listed(ids, "PoolId") \cap MapKeys(t.pools_by_id) = {}) => r = t

C27_RemoveExact ==
    \A ids \in IdLists :
        LET t == Drained(pool_tracker)
        IN  /\ RemovesExactly(t, ids, queue_update(t, Remove(ids)))
            /\ end_block(queue_update(begin_block(t), Remove(ids))) = queue_update(t, Remove(ids))

(* C28: after any sequence of Add, Remove and Replace updates each of       *)
(* v2_pools, v3_pools and v4_pools is the number of tracked pools of that   *)
(* protocol, total_pools is their sum, and no counter goes below zero.      *)
TrackedPools(t) == {e.v : e \in t.pools_by_address \cup t.pools_by_id}
CountOf(t, protocol) == Cardinality({p \in TrackedPools(t) : p.protocol = protocol})

C28_CountsMatchTrackedPools ==
    /\ stats(pool_tracker).v2_pools = CountOf(pool_tracker, "UniswapV2")
    /\ stats(pool_tracker).v3_pools = CountOf(pool_tracker, "UniswapV3")
    /\ stats(pool_tracker).v4_pools = CountOf(pool_tracker, "UniswapV4")
    /\ stats(pool_tracker).total_pools = stats(pool_tracker).v2_pools + stats(pool_tracker).v3_pools + stats(pool_tracker).v4_pools
    /\ pool_tracker.v2_count >= 0 /\ pool_tracker.v3_count >= 0 /\ pool_tracker.v4_count >= 0
    /\ MapKeys(pool_tracker.pools_by_address) \subseteq pool_tracker.tracked_addresses
    /\ MapKeys(pool_tracker.pools_by_id) = pool_tracker.tracked_pool_ids

C28_Witness ==
    /\ msgs_received = MaxUpdates
    /\ ~pool_tracker.in_block
    /\ pool_tracker.v2_count = 1
    /\ pool_tracker.v3_count = 0
    /\ pool_tracker.v4_count = 1
    /\ K2 \notin pool_tracker.tracked_pool_ids

(* C29: the Processor numbers the frames it builds 1, 2, 3, ..., a frame    *)
(* dropped by the channel included; so in the delivered stream (the frames  *)
(* the channel accepted, in order) two neighbours have non-consecutive      *)
(* stream_seq exactly when a frame between them was dropped.                *)
Delivered == SelectSeq(emitted, LAMBDA m : m.stream_seq \notin FailedSeqs)

C29_GapsAreDrops ==
    /\ stream_seq = Len(emitted)
    /\ \A i \in 1..Len(emitted) : emitted[i].stream_seq = i
    /\ FailedSeqs \subseteq 1..Len(emitted)
    /\ Len(Delivered) = socket_tx.taken + Len(socket_tx.queue)
    /\ socket_tx.queue = SubSeq(Delivered, socket_tx.taken + 1, Len(Delivered))
    /\ \A i \in 1..(Len(Delivered) - 1) :
           (Delivered[i + 1].stream_seq # Delivered[i].stream_seq + 1) <=>
               (\E f \in FailedSeqs : Delivered[i].stream_seq < f /\ f < Delivered[i + 1].stream_seq)

C29_Witness ==
    /\ ~socket_tx.closed
    /\ Len(socket_tx.queue) >= 2
    /\ socket_tx.queue[2].stream_seq > socket_tx.queue[1].stream_seq + 1
    /\ socket_tx.taken >= 1

(* C30: the old_range and new_range of a ReorgStart are the lowest block    *)
(* number, the highest block number and the number of blocks of the old and *)
(* the new chain, and between that ReorgStart and its ReorgComplete there   *)
(* are old_range.block_count windows with is_revert = true and              *)
(* new_range.block_count windows with is_revert = false.                    *)
LowestNumber(chain) == CHOOSE n \in {chain[i].number : i \in 1..Len(chain)} : \A i \in 1..Len(chain) : chain[i].number >= n
RangeOf(chain) == IF chain = <<>> THEN [first_block |-> <<>>, last_block |-> <<>>, block_count |-> 0] ELSE [first_block |-> <<LowestNumber(chain)>>, last_block |-> <<HighestNumber(chain)>>, block_count |-> Len(chain)]
ReorgStartOf(j) == CHOOSE i \in 1..(j - 1) : IsType(i, "ReorgStart") /\ \A k \in (i + 1)..(j - 1) : ~IsType(k, "ReorgStart")
WindowsBetween(i, j, is_revert) == Cardinality({k \in i..j : IsType(k, "BeginBlock") /\ emitted[k].is_revert = is_revert})

C30_ReorgRangesCountWindows ==
    /\ [](\A j \in Frames : IsType(j, "ReorgComplete") =>
              /\ \E i \in 1..(j - 1) : IsType(i, "ReorgStart")
              /\ WindowsBetween(ReorgStartOf(j), j, TRUE) = emitted[ReorgStartOf(j)].old_range.block_count
              /\ WindowsBetween(ReorgStartOf(j), j, FALSE) = emitted[ReorgStartOf(j)].new_range.block_count)
    /\ [][Emits("ReorgStart") =>
              /\ NewLastFrame.old_range = RangeOf(notification'.old)
              /\ NewLastFrame.new_range = RangeOf(notification'.new)]_vars

C30_Witness ==
    /\ pc = "ack"
    /\ notification.kind = "ChainReorged"
    /\ Len(notification.old) = 2
    /\ Len(notification.new) = 1
    /\ LastFrame.type = "ReorgComplete"
    /\ WindowsBetween(ReorgStartOf(Len(emitted)), Len(emitted), TRUE) = 2
    /\ WindowsBetween(ReorgStartOf(Len(emitted)), Len(emitted), FALSE) = 1

(* C31: a subscriber is sent only frames broadcast after its connection    *)
(* was accepted: no frame in its stream or in its handler's hand was        *)
(* broadcast before the accept, also after a disconnect and a new           *)
(* connection; every frame it holds is one the ring took; and a frame the   *)
(* server takes while no receiver is alive changes neither the ring nor     *)
(* any connection.                                                          *)
SentFrames == {broadcast_tx.sent[j] : j \in 1..Len(broadcast_tx.sent)}
BroadcastBefore(c) == {broadcast_tx.sent[j] : j \in 1..clients[c].subscribed_at}
Received(c) == {clients[c].wire[k] : k \in 1..Len(clients[c].wire)} \cup {clients[c].message[k] : k \in 1..Len(clients[c].message)}

C31_NoReplay ==
    /\ [](\A c \in Clients : Received(c) \cap BroadcastBefore(c) = {} /\ Received(c) \subseteq SentFrames)
    /\ [][(socket_tx'.taken # socket_tx.taken /\ rx_cnt = 0) => (broadcast_tx' = broadcast_tx /\ clients' = clients)]_vars

\* the only subscriber, connected for the second time, has been written a
\* frame; a frame was broadcast to its first connection and one was
\* discarded
C31_Witness ==
    /\ clients["B"].task = "none"
    /\ clients["A"].task = "recv"
    /\ clients["A"].subscribed_at >= 1
    /\ Len(clients["A"].wire) >= 1
    /\ socket_tx.taken > Len(broadcast_tx.sent)

(* C39: the frames written to one connection are a contiguous run of the    *)
(* broadcast sequence, in order and each once; a handler whose recv         *)
(* returned Lagged has skipped frames (its run ends before the oldest       *)
(* frame the ring retains) and writes nothing more to that connection.      *)
ContiguousRun(c) ==
    LET w == clients[c].wire
    IN  \E i \in 0..Len(broadcast_tx.sent) :
            /\ i + Len(w) <= Len(broadcast_tx.sent)
            /\ \A k \in 1..Len(w) : w[k] = broadcast_tx.sent[i + k]

BroadcastInOrder == \A j, k \in 1..Len(broadcast_tx.sent) : j < k => broadcast_tx.sent[j].stream_seq < broadcast_tx.sent[k].stream_seq

LaggedOut(c) == clients[c].task = "done" /\ ~clients[c].closed

C39_ContiguousRunPerSubscriber ==
    /\ [](BroadcastInOrder /\ \A c \in Clients : ContiguousRun(c))
    /\ [](\A c \in Clients : LaggedOut(c) => clients[c].subscribed_at + Len(clients[c].wire) < RingStart(broadcast_tx))
    /\ [][\A c \in Clients : clients[c].task = "done" => (clients'[c].wire = clients[c].wire \/ (clients'[c].task = "recv" /\ clients'[c].wire = <<>>))]_vars

\* a subscriber that was written a frame and then disconnected for lagging
\* while the other one has been written the whole broadcast sequence
C39_Witness ==
    /\ LaggedOut("A")
    /\ Len(clients["A"].wire) >= 1
    /\ clients["B"].task = "recv"
    /\ ~clients["B"].closed
    /\ Len(clients["B"].wire) > Len(clients["A"].wire) + BUFFER_SIZE

(* C32: on a stream of finitely many notifications that the host then      *)
(* closes, the Processor eventually exits, whatever the Ingestor does with  *)
(* the tracker lock; the block windows it opens are the blocks of the       *)
(* notifications in the order delivered (old chain reverted, then new       *)
(* chain applied), and when it exits every notification was taken, every    *)
(* window is closed, every reorg bracket is complete, no whitelist update   *)
(* is left pending and no guard or lock request of the Processor is left.   *)
RECURSIVE WindowsOfStream(_)
WindowsOfStream(st) ==
    IF st = <<>> THEN <<>>
    ELSE WindowsOf(Head(st).old, TRUE) \o WindowsOf(Head(st).new, FALSE) \o WindowsOfStream(Tail(st))

CountFrames(type) == Cardinality({i \in Frames : IsType(i, type)})

ProcessedAll ==
    /\ notifications.received = Len(notifications.stream)
    /\ BeginsFrom(1) = WindowsOfStream(notifications.stream)
    /\ CountFrames("EndBlock") = CountFrames("BeginBlock")
    /\ CountFrames("ReorgComplete") = CountFrames("ReorgStart")
    /\ CountFrames("ReorgStart") = Cardinality({i \in 1..Len(notifications.stream) : notifications.stream[i].kind # "ChainCommitted"})
    /\ ~pool_tracker.in_block
    /\ ~has_pending_updates(pool_tracker)
    /\ ~Holds(tracker_lock, "processor")
    /\ ~Waiting(tracker_lock, "processor")

C32_ProcessorDrainsStreamAndExits ==
    /\ <>(pc = "exited")
    /\ [](IsPrefix(BeginsFrom(1), WindowsOfStream(notifications.stream)))
    /\ [](pc = "exited" => ProcessedAll)

\* the Processor has exited after a reorg and a commit, with a whitelist of
\* the Ingestor applied in between: a block of the stream yielded updates
C32_Witness ==
    /\ pc = "exited"
    /\ Len(notifications.stream) = 2
    /\ notifications.stream[1].kind = "ChainReorged"
    /\ notifications.stream[2].kind = "ChainCommitted"
    /\ msgs_received >= 1
    /\ CountFrames("PoolUpdate") >= 1
    /\ emitted[2].type = "BeginBlock"
    /\ emitted[3].type = "EndBlock"

(* C40: the Processor never asks for the write lock while a read guard of   *)
(* its own is alive, write guards are exclusive, and every request of the   *)
(* Processor or of the Ingestor for the tracker lock is eventually granted. *)
LockTasks == {"processor", "ingestor"}

C40_NoDeadlockOnTrackerLock ==
    /\ [](~(Guard("processor", "read") \in tracker_lock.held /\ \E i \in 1..Len(tracker_lock.queue) : tracker_lock.queue[i] = Guard("processor", "write")))
    /\ [](\A g \in tracker_lock.held : g.mode = "write" => tracker_lock.held = {g})
    /\ \A task \in LockTasks : Waiting(tracker_lock, task) ~> Holds(tracker_lock, task)

\* the Ingestor waits for the write lock behind the read guard of a scan
C40_Witness ==
    /\ pc = "scan"
    /\ Guard("processor", "read") \in tracker_lock.held
    /\ tracker_lock.queue = <<Guard("ingestor", "write")>>

(* C33: a whitelist message whose type is absent (read as "full") or is     *)
(* none of add, remove, full, once converted and applied (at once, or by    *)
(* end_block when a block is open), leaves exactly the valid pools it lists *)
(* tracked, with their counts, and no other pool.                           *)
ReplacesWhole(message) == message.ok /\ message.value.message_type \notin {"add", "remove"}

C33_UnknownTypeIsFullReplacement ==
    [][(msgs_received' # msgs_received /\ ReplacesWhole(ingestor'.message) /\ LastUpdate(ingestor').ok)
       => HoldsExactly(Drained(pool_tracker'), parse_pool_entries(ingestor'.message.value.pools, ingestor'.message.value.protocols, 1))]_vars

(* C34: in the balance monitor, reverting a block is the inverse of        *)
(* applying it: after a relevant non-zero transfer is applied and then      *)
(* reverted, the balance of its token is the balance before.  The updates   *)
(* saturate at 0 and at U256::MAX, and a saturated apply is not undone.     *)
BalanceOf(balances, token) == IF token \in MapKeys(balances) THEN MapGet(balances, token) ELSE 0

TheTransfer == balance_monitor.receipts[1].logs[1]

Relevant ==
    /\ Len(balance_monitor.receipts) = 1
    /\ TheTransfer.transfer
    /\ TheTransfer.token \in TrackedTokens
    /\ TheTransfer.value # 0
    /\ (TheTransfer.to = EXECUTOR) # (TheTransfer.from = EXECUTOR)

ApplySaturates ==
    IF TheTransfer.to = EXECUTOR
    THEN BalanceOf(balance_monitor.start, TheTransfer.token) + TheTransfer.value > U256_MAX
    ELSE TheTransfer.value > BalanceOf(balance_monitor.start, TheTransfer.token)

\* the claim as stated: violated
C34_RevertIsInverseOfApply ==
    (balance_monitor.step = "reverted" /\ Relevant)
        => BalanceOf(balance_monitor.balances, TheTransfer.token) = BalanceOf(balance_monitor.start, TheTransfer.token)

\* C34, amended: the balance is restored when the apply step did not
\* saturate; a saturated incoming transfer of v on a balance b leaves
\* U256::MAX - v, a saturated outgoing one leaves v
C34_RevertIsInverseUnlessSaturated ==
    (balance_monitor.step = "reverted" /\ Relevant)
        => LET b == BalanceOf(balance_monitor.start, TheTransfer.token)
               v == TheTransfer.value
               after == BalanceOf(balance_monitor.balances, TheTransfer.token)
           IN  /\ ~ApplySaturates => after = b
               /\ (ApplySaturates /\ TheTransfer.to = EXECUTOR) => after = U256_MAX - v
               /\ (ApplySaturates /\ TheTransfer.from = EXECUTOR) => after = v
               /\ balance_monitor.changed = {TheTransfer.token}

C34_Witness ==
    /\ balance_monitor.step = "reverted"
    /\ Relevant
    /\ ~ApplySaturates
    /\ TheTransfer.from = EXECUTOR
    /\ BalanceOf(balance_monitor.start, TheTransfer.token) > TheTransfer.value

(* C35: every PoolUpdate frame of a block window refers to a pool that was  *)
(* whitelisted when the window opened: its identifier has a metadata entry  *)
(* in the tracker (pools_by_address for an Address, pools_by_id for a       *)
(* PoolId), whatever logs the host delivers, logs emitted by the manager    *)
(* contract address included.  The tracker does not change while the       *)
(* window is open.                                                          *)
HasMetadata(t, id) ==
    IF id.tag = "Address" THEN id.bytes \in MapKeys(t.pools_by_address)
    ELSE id.bytes \in MapKeys(t.pools_by_id)

C35_PoolUpdateRefersToWhitelistedPool ==
    pool_tracker.in_block
        => \A k \in UpdatesBetween(LastBegin, Len(emitted) + 1) : HasMetadata(pool_tracker, emitted[k].event.pool_id)

(* C36: whenever the tracker is not in a block after a public operation    *)
(* has returned, its queue of pending updates is empty: has_pending_updates *)
(* implies that a block is in progress.  An update queued inside a block    *)
(* stays queued until end_block, which leaves the queue empty.              *)
C36_PendingOnlyInsideBlock ==
    /\ has_pending_updates(pool_tracker) => pool_tracker.in_block
    /\ ~pool_tracker.in_block => Len(pool_tracker.pending_updates) = 0

C36_Witness ==
    /\ pool_tracker.in_block
    /\ has_pending_updates(pool_tracker)
    /\ ~has_pending_updates(end_block(pool_tracker))
    /\ end_block(pool_tracker).tracked_pool_ids # pool_tracker.tracked_pool_ids

(* C37: a block window with is_revert = true appears only between a        *)
(* ReorgStart and its ReorgComplete; the block windows of a ChainCommitted  *)
(* notification are never inside such a bracket and carry is_revert =       *)
(* false; every PoolUpdate carries the is_revert of the BeginBlock that     *)
(* opened its window.                                                       *)
BracketOpenAt(stream, i) ==
    \E j \in 1..(i - 1) :
        /\ stream[j].type = "ReorgStart"
        /\ \A k \in (j + 1)..(i - 1) : stream[k].type # "ReorgComplete"

BeginOf(k) ==
    LET B == {i \in 1..(k - 1) : IsType(i, "BeginBlock")}
    IN  IF B = {} THEN 0 ELSE CHOOSE i \in B : \A b \in B : b <= i

C37_RevertWindowsOnlyInsideReorg ==
    /\ [](\A i \in Frames :
              /\ (IsType(i, "BeginBlock") /\ emitted[i].is_revert) => BracketOpenAt(emitted, i)
              /\ IsType(i, "PoolUpdate") =>
                     /\ BeginOf(i) # 0
                     /\ NoneBetween(BeginOf(i), i, {"EndBlock"})
                     /\ emitted[i].event.is_revert = emitted[BeginOf(i)].is_revert)
    /\ [][(Emits("BeginBlock") /\ notification.kind = "ChainCommitted") =>
              /\ ~NewLastFrame.is_revert
              /\ ~BracketOpenAt(emitted', Len(emitted'))]_vars

C37_Witness ==
    /\ notification.kind = "ChainCommitted"
    /\ pc = "ack"
    /\ \E i \in Frames : \E j \in Frames : \E c \in Frames : \E k \in Frames :
           /\ i < j /\ j < c /\ c < k
           /\ IsType(i, "BeginBlock") /\ emitted[i].is_revert /\ BracketOpenAt(emitted, i)
           /\ IsType(j, "ReorgComplete")
           /\ IsType(c, "BeginBlock") /\ ~emitted[c].is_revert /\ ~BracketOpenAt(emitted, c)
           /\ IsType(k, "PoolUpdate") /\ ~emitted[k].event.is_revert /\ BeginOf(k) = c

(* C38: the slot0_resync_required of a ReorgComplete holds only pools that  *)
(* had a V3 or V4 swap reverted in the old range of that same reorg:        *)
(* liquidity events, V2 swaps and the swaps of the new range add nothing,   *)
(* and the list is empty at each ReorgStart, so nothing is carried over     *)
(* from an earlier reorg.                                                   *)
RevertedSwaps(i, j) ==
    {k \in UpdatesBetween(i, j) : emitted[k].event.is_revert /\ emitted[k].event.update \in {"V3Swap", "V4Swap"}}

ResyncPools(list) == {list[n] : n \in 1..Len(list)}

C38_ResyncOnlyRevertedSwaps ==
    /\ [](\A j \in Frames : IsType(j, "ReorgComplete") =>
              /\ \E i \in 1..(j - 1) : IsType(i, "ReorgStart")
              /\ ResyncPools(emitted[j].slot0_resync_required) = {emitted[k].event.pool_id : k \in RevertedSwaps(ReorgStartOf(j), j)})
    /\ [][Emits("ReorgStart") => slot0_resync_required' = <<>>]_vars
    /\ [](pc \in {"begin", "scan", "end", "complete"} /\ notification.kind # "ChainCommitted" =>
              ResyncPools(slot0_resync_required) = {emitted[k].event.pool_id : k \in RevertedSwaps(LastReorgStart, Len(emitted) + 1)})

C38_Witness ==
    /\ pc = "ack"
    /\ notification.kind = "ChainReorged"
    /\ LastFrame.type = "ReorgComplete"
    /\ LastFrame.slot0_resync_required # <<>>
    /\ \E k \in UpdatesBetween(ReorgStartOf(Len(emitted)), Len(emitted)) :
           /\ ~emitted[k].event.is_revert
           /\ emitted[k].event.update \in {"V3Swap", "V4Swap"}
           /\ emitted[k].event.pool_id \notin ResyncPools(LastFrame.slot0_resync_required)
    /\ \E k \in UpdatesBetween(ReorgStartOf(Len(emitted)), Len(emitted)) :
           /\ emitted[k].event.is_revert
           /\ emitted[k].event.update \in {"V3Liquidity", "V2Swap"}
           /\ emitted[k].event.pool_id \notin ResyncPools(LastFrame.slot0_resync_required)

====
